---------------------------- MODULE Spec2Model ----------------------------
(***************************************************************************)
(* ZeroBridge: the Zcash Coordinator (token registry, liquidity manager,   *)
(* coordinator store, deposit and withdrawal pipelines, RPC surface), the  *)
(* destination gateways (NEAR, Osmosis) and the relayer swarm.             *)
(*                                                                         *)
(* Specifications:                                                         *)
(*   SpecCfg   Config::load and RelayerConfig::load on parsed files;       *)
(*   SpecReg   the TokenRegistry loaded from a configuration file and      *)
(*             queried;                                                    *)
(*   SpecRebal the rebalancing arithmetic of LiquidityPool on loaded       *)
(*             pools;                                                      *)
(*   SpecGate  the tasks that reach the LiquidityManager through its       *)
(*             RwLock, each operation split into its assignments;          *)
(*   SpecLiq   the LiquidityManager driven directly through its            *)
(*             operations;                                                 *)
(*   SpecSeeded SpecLiq on a store whose pool rows carry a target;         *)
(*   Spec      the Coordinator: the RPC notification handlers running      *)
(*             concurrently with the single tick loop of Coordinator::run; *)
(*   SpecTick  Spec with the wall clock advancing between              *)
(*             notifications;                                              *)
(*   SpecIso   Spec started with either of two token configurations, the    *)
(*             tick loop running forever;                                  *)
(*   SpecRetry the deposit pipeline of SpecIso under a fair tick loop;     *)
(*   SpecRace  Spec plus a second invocation of the withdrawal pipeline on *)
(*             a record it was already given;                              *)
(*   SpecGw    a destination gateway under arbitrary request_withdrawal /  *)
(*             execute_withdrawal calls;                                   *)
(*   SpecShutdown the relayer processes with the chain submission split at   *)
(*             its await and a shutdown signal that may arrive at any time; *)
(*   SpecRelay two relayer instances polling, claiming, executing and      *)
(*             gossiping over a lossy, duplicating, reordering network;    *)
(*   SpecCleanup SpecRelay with cleanup_expired_claims called at any       *)
(*             moment.                                                     *)
(***************************************************************************)
EXTENDS Integers, Sequences, FiniteSets, TLC

VARIABLES
    pools,        \* LiquidityManager.pools : HashMap<PoolKey, LiquidityPool>
    dbPools,      \* table liquidity_pools
    deposits,     \* table deposits, keyed by deposit_id
    withdrawals,  \* table withdrawals, keyed by withdrawal_id
    nullifiers,   \* table nullifiers: nullifier -> how often it was written as spent
    notes,        \* notes the settlement capability created, per deposit handled
    pc,           \* position of Coordinator::run inside a tick
    pendingD,     \* process_deposits: the rows still to handle in this tick
    pendingW,     \* process_withdrawals: the rows still to handle in this tick
    now,          \* wall clock, in seconds
    last,         \* the operation or handler that ran last, and how it ended
    gateway,      \* a destination gateway contract's storage
    relayers,     \* per relayer instance: its P2PNetwork claims, store and poll loop
    gossip,       \* gossip messages published and not yet forgotten by the network
    registry,     \* the token configuration file and what TokenRegistry::load made of it
    rwlock        \* the RwLock around the LiquidityManager and the tasks that take it

vars == <<pools, dbPools, deposits, withdrawals, nullifiers, notes, pc,
          pendingD, pendingW, now, last, gateway, relayers, gossip, registry,
          rwlock>>

\* What is fixed when the processes start
auxVars == <<registry, rwlock>>

\* The components outside the Coordinator process
extVars == <<gateway, relayers, gossip, auxVars>>

coordVars == <<deposits, withdrawals, nullifiers, notes, pc, pendingD, pendingW, now>>

-----------------------------------------------------------------------------
(* Bounds of the model *)

MaxAmount == 2

MaxBalance == 2

Amounts == 0..MaxAmount

-----------------------------------------------------------------------------
(* Token registry *)

\* Err(..) of get_token_for_chain
NotFound == [ok |-> FALSE]

\* SQL NULL / Option::None
NULL == << >>

\* The token configuration file: one token with a representation on chain 1
\* (address written in mixed case) and one on chain 2.
TokenConfig ==
    << [symbol |-> "USDC",
        representations |-> << [chain_id |-> 1, address |-> "0xA"],
                               [chain_id |-> 2, address |-> "0xb"] >>] >>

\* str::to_lowercase on the address strings of the model
to_lowercase(s) ==
    CASE s = "0xA" -> "0xa"
      [] s = "0xB" -> "0xb"
      [] s = "0xZ" -> "0xz"
      [] OTHER -> s

\* str::to_uppercase followed by the hash of compute_canonical_id
compute_canonical_id(symbol) ==
    CASE symbol = "usdc" -> <<"blake2b", "USDC">>
      [] OTHER -> <<"blake2b", symbol>>

\* TokenRegistry::load: the two maps built by the nested loops; a later insert
\* with the same key replaces the earlier one.
RECURSIVE LoadReprs(_, _, _, _)
LoadReprs(reprs, i, cid, rl) ==
    IF i > Len(reprs) THEN rl
    ELSE LET k == <<reprs[i].chain_id, to_lowercase(reprs[i].address)>>
             rl2 == [x \in DOMAIN rl \cup {k} |-> IF x = k THEN cid ELSE rl[x]]
         IN  LoadReprs(reprs, i + 1, cid, rl2)

RECURSIVE LoadTokens(_, _, _)
LoadTokens(cfg, i, reg) ==
    IF i > Len(cfg) THEN reg
    ELSE LET cid == compute_canonical_id(cfg[i].symbol)
             rl2 == LoadReprs(cfg[i].representations, 1, cid, reg.reverse_lookup)
             m2  == [x \in DOMAIN reg.mappings \cup {cid} |->
                        IF x = cid THEN cfg[i].representations ELSE reg.mappings[x]]
         IN  LoadTokens(cfg, i + 1, [mappings |-> m2, reverse_lookup |-> rl2])

load(cfg) == LoadTokens(cfg, 1, [mappings |-> << >>, reverse_lookup |-> << >>])

\* What TokenRegistry::load returns for a file that was read and parsed: Ok(Self)
LoadResult(cfg) == [tokens |-> cfg, ok |-> TRUE, reg |-> load(cfg)]

token_registry == load(TokenConfig)

\* TokenRegistry::get_token_for_chain: reverse lookup by (chain, lowercased
\* address), then the first representation of that token on the chain.
get_token_for_chain(reg, chain_id, token_address) ==
    LET k == <<chain_id, to_lowercase(token_address)>> IN
    IF k \notin DOMAIN reg.reverse_lookup THEN NotFound
    ELSE LET cid == reg.reverse_lookup[k] IN
         IF cid \notin DOMAIN reg.mappings THEN NotFound
         ELSE LET reprs == reg.mappings[cid]
                  hits == {i \in 1..Len(reprs) : reprs[i].chain_id = chain_id}
              IN  IF hits = {} THEN NotFound
                  ELSE LET t == reprs[CHOOSE i \in hits : \A j \in hits : i <= j]
                       IN  [ok |-> TRUE, chain_id |-> t.chain_id, address |-> t.address]

\* TokenRegistry::get_canonical_id
get_canonical_id(reg, chain_id, token_address) ==
    LET k == <<chain_id, to_lowercase(token_address)>> IN
    IF k \in DOMAIN reg.reverse_lookup THEN reg.reverse_lookup[k] ELSE NULL

\* TokenRegistry::is_supported
is_supported(reg, chain_id, token_address) ==
    <<chain_id, to_lowercase(token_address)>> \in DOMAIN reg.reverse_lookup

\* Token definitions a configuration file may hold: the token of TokenConfig,
\* a second token that reuses its chain-1 address in lower case, a definition
\* whose symbol differs from the first only in letter case, a token on an
\* address of its own, and a token with two representations on chain 1.
TokenDefs ==
    { TokenConfig[1],
      [symbol |-> "DAI", representations |-> << [chain_id |-> 1, address |-> "0xZ"],
                                                [chain_id |-> 1, address |-> "0xB"] >>],
      [symbol |-> "ZEC", representations |-> << [chain_id |-> 1, address |-> "0xa"] >>],
      [symbol |-> "usdc", representations |-> << [chain_id |-> 2, address |-> "0xB"] >>],
      [symbol |-> "ZEC", representations |-> << [chain_id |-> 2, address |-> "0xZ"] >>] }

MaxTokens == 2

\* The parsed configuration files of at most MaxTokens token definitions
TokenConfigs == UNION {[1..n -> TokenDefs] : n \in 0..MaxTokens}

LookupChains == {1, 2}

LookupAddresses == {"0xA", "0xa", "0xB", "0xb", "0xZ", "0xq"}

\* A call of get_token_for_chain on the loaded registry
GetTokenForChain ==
    \E chain_id \in LookupChains, token_address \in LookupAddresses :
        LET r == get_token_for_chain(registry.reg, chain_id, token_address) IN
        /\ registry.ok
        /\ last' = [op |-> "get_token_for_chain", id |-> <<chain_id, token_address>>,
                    ok |-> r.ok, err |-> IF r.ok THEN "none" ELSE "NotFound",
                    rec |-> r, reason |-> "none"]
        /\ UNCHANGED <<pools, dbPools, coordVars, gateway, relayers, gossip, auxVars>>

\* A call of get_canonical_id or is_supported on the loaded registry
GetCanonicalId ==
    \E chain_id \in LookupChains, token_address \in LookupAddresses :
        /\ registry.ok
        /\ last' = [op |-> "get_canonical_id", id |-> <<chain_id, token_address>>,
                    ok |-> is_supported(registry.reg, chain_id, token_address),
                    err |-> "none",
                    rec |-> get_canonical_id(registry.reg, chain_id, token_address),
                    reason |-> "none"]
        /\ UNCHANGED <<pools, dbPools, coordVars, gateway, relayers, gossip, auxVars>>

-----------------------------------------------------------------------------
(* Liquidity manager *)

\* The tasks that take the RwLock around the LiquidityManager: the tick loop
\* (read gate for ensure_liquidity, write gate for lock and release), an RPC
\* request in check_liquidity_handler, and a caller of add / remove
Tasks == {"tick", "rpc", "admin"}

ReaderTasks == {"tick", "rpc"}

\* The mutating operations each writer task calls under the write gate
WriterOps == [tick |-> {"lock", "release"}, admin |-> {"add", "remove"}]

TaskIdle ==
    [pc |-> "idle", op |-> "none", amount |-> 0, pre |-> NULL,
     seen_available |-> 0, seen_locked |-> 0, err |-> "none"]

\* RwLock::new: nobody holds the lock, no task is inside the manager
LockIdle(ps) ==
    [writer |-> "none", readers |-> {}, task |-> [t \in Tasks |-> TaskIdle],
     committed |-> ps]

\* RwLock::read resolves: no writer holds the lock
can_read(lk) == lk.writer = "none"

\* A RwLock::write that resolves while readers hold the lock
can_write_beside_readers(lk) == lk.writer = "none"

\* RwLock::write resolves: nobody holds the lock
can_write(lk) == lk.writer = "none" /\ lk.readers = {}

\* The pools the model's operations address: PoolKey = (chain_id, token)
PoolKeys == {<<1, "0xA">>, <<2, "0xb">>}

\* Database::update_liquidity_pool: INSERT OR REPLACE of the whole row; the
\* target column is always written as 0.
update_liquidity_pool(db, key, available, locked) ==
    [k \in DOMAIN db \cup {key} |->
        IF k = key THEN [available |-> available, locked |-> locked, target |-> 0]
        ELSE db[k]]

\* LiquidityManager::load_pools over Database::get_all_liquidity_pools
load_pools(db) ==
    [k \in DOMAIN db |->
        [available |-> db[k].available, locked |-> db[k].locked,
         target |-> db[k].target, last_rebalance |-> 0]]

\* The outcome of a LiquidityManager operation: the pool table, the durable
\* table, and Ok / the error.
LmRes(ps, db, err) == [pools |-> ps, db |-> db, ok |-> (err = "none"), err |-> err]

\* An ensure_liquidity that only looks for the pool
ensure_liquidity_pool_only(ps, key, amount) ==
    IF key \notin DOMAIN ps THEN "PoolNotFound" ELSE "none"

\* LiquidityManager::ensure_liquidity
ensure_liquidity(ps, key, amount) ==
    IF key \notin DOMAIN ps THEN "PoolNotFound"
    ELSE IF ps[key].available < amount THEN "Insufficient"
    ELSE "none"

\* A lock_liquidity that takes the amount out of available and forgets to add it
\* to locked
lock_liquidity_forgets_locked(ps, db, key, amount, dbOk) ==
    IF key \notin DOMAIN ps THEN LmRes(ps, db, "PoolNotFound")
    ELSE IF ps[key].available < amount THEN LmRes(ps, db, "Insufficient")
    ELSE LET ps2 == [ps EXCEPT ![key].available = @ - amount]
         IN  IF dbOk
             THEN LmRes(ps2, update_liquidity_pool(db, key, ps2[key].available,
                                                   ps2[key].locked), "none")
             ELSE LmRes(ps2, db, "Db")

\* LiquidityManager::lock_liquidity; dbOk: the durable write succeeds
lock_liquidity(ps, db, key, amount, dbOk) ==
    IF key \notin DOMAIN ps THEN LmRes(ps, db, "PoolNotFound")
    ELSE IF ps[key].available < amount THEN LmRes(ps, db, "Insufficient")
    ELSE LET ps2 == [ps EXCEPT ![key].available = @ - amount,
                               ![key].locked = @ + amount]
         IN  IF dbOk
             THEN LmRes(ps2, update_liquidity_pool(db, key, ps2[key].available,
                                                   ps2[key].locked), "none")
             ELSE LmRes(ps2, db, "Db")

\* LiquidityManager::release_liquidity
release_liquidity(ps, db, key, amount, dbOk) ==
    IF key \notin DOMAIN ps THEN LmRes(ps, db, "PoolNotFound")
    ELSE IF ps[key].locked < amount THEN LmRes(ps, db, "none")
    ELSE LET ps2 == [ps EXCEPT ![key].locked = @ - amount]
         IN  IF dbOk
             THEN LmRes(ps2, update_liquidity_pool(db, key, ps2[key].available,
                                                   ps2[key].locked), "none")
             ELSE LmRes(ps2, db, "Db")

\* LiquidityManager::add_liquidity
add_liquidity(ps, db, key, amount, dbOk) ==
    LET ps1 == [k \in DOMAIN ps \cup {key} |->
                   IF k \in DOMAIN ps THEN ps[k]
                   ELSE [available |-> 0, locked |-> 0, target |-> 0,
                         last_rebalance |-> 0]]
        ps2 == [ps1 EXCEPT ![key].available = @ + amount]
    IN  IF dbOk
        THEN LmRes(ps2, update_liquidity_pool(db, key, ps2[key].available,
                                              ps2[key].locked), "none")
        ELSE LmRes(ps2, db, "Db")

\* LiquidityManager::remove_liquidity
remove_liquidity(ps, db, key, amount, dbOk) ==
    IF key \notin DOMAIN ps THEN LmRes(ps, db, "PoolNotFound")
    ELSE IF ps[key].available < amount THEN LmRes(ps, db, "Insufficient")
    ELSE LET ps2 == [ps EXCEPT ![key].available = @ - amount]
         IN  IF dbOk
             THEN LmRes(ps2, update_liquidity_pool(db, key, ps2[key].available,
                                                   ps2[key].locked), "none")
             ELSE LmRes(ps2, db, "Db")

Total(ps, key) == IF key \in DOMAIN ps THEN ps[key].available + ps[key].locked ELSE 0

\* Machine arithmetic of LiquidityPool's methods, at reduced width: u64 and i64
\* are WordBits wide, an f64 carries MantissaBits significant bits.
WordBits == 3

MantissaBits == 2

RECURSIVE Pow2(_)
Pow2(n) == IF n = 0 THEN 1 ELSE 2 * Pow2(n - 1)

U64Max == Pow2(WordBits) - 1

I64Max == Pow2(WordBits - 1) - 1

I64Min == 0 - Pow2(WordBits - 1)

\* The build profiles: integer overflow panics (overflow-checks, the dev
\* profile) or wraps (the release profile)
Builds == {"overflow-checks", "wrapping"}

Panic == [panic |-> TRUE, value |-> NULL]

Value(v) == [panic |-> FALSE, value |-> v]

\* u64 + u64
u64_add(a, b, build) ==
    IF a + b <= U64Max THEN Value(a + b)
    ELSE IF build = "overflow-checks" THEN Panic
    ELSE Value((a + b) % Pow2(WordBits))

\* N / D rounded to the nearest integer, ties to even
RoundHalfEven(N, D) ==
    LET q == N \div D
        r == N % D
    IN  IF 2 * r > D \/ (2 * r = D /\ q % 2 = 1) THEN q + 1 ELSE q

RECURSIVE ScaleUp(_, _, _)
ScaleUp(n, d, e) ==
    IF n * Pow2(e) >= Pow2(MantissaBits - 1) * d THEN e ELSE ScaleUp(n, d, e + 1)

RECURSIVE ScaleDown(_, _, _)
ScaleDown(n, d, e) ==
    IF n < Pow2(MantissaBits) * d * Pow2(e) THEN e ELSE ScaleDown(n, d, e + 1)

\* The f64 nearest to the non-negative rational n / d (round to nearest, ties
\* to even), as a fraction <<numerator, denominator>>
f64_round(n, d) ==
    IF n = 0 THEN <<0, 1>>
    ELSE LET down == ScaleDown(n, d, 0) IN
         IF down > 0 THEN <<RoundHalfEven(n, d * Pow2(down)) * Pow2(down), 1>>
         ELSE LET up == ScaleUp(n, d, 0)
              IN  <<RoundHalfEven(n * Pow2(up), d), Pow2(up)>>

\* u64 as f64
as_f64(u) == f64_round(u, 1)

\* f64 / f64, f64 * f64 and f64 > f64 on non-negative operands
f64_div(a, b) == f64_round(a[1] * b[2], a[2] * b[1])

f64_mul(a, b) == f64_round(a[1] * b[1], a[2] * b[2])

f64_gt(a, b) == a[1] * b[2] > b[1] * a[2]

\* f64 - f64: sign and magnitude of the rounded difference
f64_sub(a, b) ==
    LET num == a[1] * b[2] - b[1] * a[2]
        den == a[2] * b[2]
    IN  [neg |-> num < 0, mag |-> f64_round(IF num < 0 THEN 0 - num ELSE num, den)]

\* f64 as i64: truncation toward zero, saturating at the ends of i64
as_i64(x) ==
    LET t == x.mag[1] \div x.mag[2]
        v == IF x.neg THEN 0 - t ELSE t
    IN  IF v > I64Max THEN I64Max ELSE IF v < I64Min THEN I64Min ELSE v

\* The f64 values rebalance_threshold and target_utilization are given
Thresholds == {<<1, 2>>, <<3, 4>>, <<1, 1>>}

\* LiquidityPool::utilization
utilization(pool, build) ==
    LET total == u64_add(pool.available, pool.locked, build) IN
    IF total.panic THEN Panic
    ELSE IF total.value = 0 THEN Value(<<0, 1>>)
    ELSE Value(f64_div(as_f64(pool.locked), as_f64(total.value)))

\* LiquidityPool::needs_rebalancing
needs_rebalancing(pool, threshold, build) ==
    LET u == utilization(pool, build) IN
    IF u.panic THEN Panic ELSE Value(f64_gt(u.value, threshold))

\* LiquidityPool::calculate_rebalance_amount
calculate_rebalance_amount(pool, target_utilization, build) ==
    LET total == u64_add(pool.available, pool.locked, build) IN
    IF total.panic THEN Panic
    ELSE LET current_locked == as_f64(pool.locked)
             target_locked == f64_mul(as_f64(total.value), target_utilization)
         IN  Value(as_i64(f64_sub(target_locked, current_locked)))

\* LiquidityManager::check_rebalancing_needed: the keys pushed, in the map's
\* iteration order (any)
check_rebalancing_needed(ps, threshold, build) ==
    IF \E k \in DOMAIN ps : needs_rebalancing(ps[k], threshold, build).panic THEN Panic
    ELSE Value({k \in DOMAIN ps : needs_rebalancing(ps[k], threshold, build).value})

\* The values of max_rebalance_usd
RebalanceCaps == {1, 2}

\* i64::abs followed by `as u64`: the absolute value; i64::MIN has none, abs
\* panics on it or returns it unchanged, and i64::MIN as u64 is 2^(w-1)
abs_as_u64(amount, build) ==
    IF amount = I64Min
    THEN (IF build = "overflow-checks" THEN Panic ELSE Value(Pow2(WordBits - 1)))
    ELSE Value(IF amount < 0 THEN 0 - amount ELSE amount)

\* LiquidityManager::trigger_rebalance at time t; the value is the pool table
\* it leaves, Err for a missing pool included
trigger_rebalance(ps, key, target_utilization, max_rebalance_usd, t, build) ==
    IF key \notin DOMAIN ps THEN Value(ps)
    ELSE LET amount == calculate_rebalance_amount(ps[key], target_utilization, build) IN
         IF amount.panic THEN Panic
         ELSE LET abs == abs_as_u64(amount.value, build) IN
              IF abs.panic THEN Panic
              ELSE IF abs.value > max_rebalance_usd THEN Value(ps)
              ELSE Value([ps EXCEPT ![key].last_rebalance = t])

NoLast ==
    [op |-> "none", id |-> "none", ok |-> TRUE, err |-> "none", rec |-> NULL,
     reason |-> "none"]

LmLast(op, key, r) ==
    [op |-> op, id |-> key, ok |-> r.ok, err |-> r.err, rec |-> NULL,
     reason |-> "none"]

\* A call of LiquidityManager::ensure_liquidity
EnsureLiquidity ==
    \E key \in PoolKeys, amount \in Amounts :
        /\ last' = LmLast("ensure", key,
                          LmRes(pools, dbPools, ensure_liquidity(pools, key, amount)))
        /\ UNCHANGED <<pools, dbPools, coordVars, extVars>>

\* A call of LiquidityManager::lock_liquidity
LockLiquidity ==
    \E key \in PoolKeys, amount \in Amounts, dbOk \in BOOLEAN :
        LET r == lock_liquidity(pools, dbPools, key, amount, dbOk) IN
        /\ pools' = r.pools
        /\ dbPools' = r.db
        /\ last' = LmLast("lock", key, r)
        /\ UNCHANGED <<coordVars, extVars>>

\* A call of LiquidityManager::release_liquidity
ReleaseLiquidity ==
    \E key \in PoolKeys, amount \in Amounts, dbOk \in BOOLEAN :
        LET r == release_liquidity(pools, dbPools, key, amount, dbOk) IN
        /\ pools' = r.pools
        /\ dbPools' = r.db
        /\ last' = LmLast("release", key, r)
        /\ UNCHANGED <<coordVars, extVars>>

\* A call of LiquidityManager::add_liquidity (balances capped at MaxBalance)
AddLiquidity ==
    \E key \in PoolKeys, amount \in Amounts, dbOk \in BOOLEAN :
        LET r == add_liquidity(pools, dbPools, key, amount, dbOk) IN
        /\ Total(pools, key) + amount <= MaxBalance
        /\ pools' = r.pools
        /\ dbPools' = r.db
        /\ last' = LmLast("add", key, r)
        /\ UNCHANGED <<coordVars, extVars>>

\* A call of LiquidityManager::remove_liquidity
RemoveLiquidity ==
    \E key \in PoolKeys, amount \in Amounts, dbOk \in BOOLEAN :
        LET r == remove_liquidity(pools, dbPools, key, amount, dbOk) IN
        /\ pools' = r.pools
        /\ dbPools' = r.db
        /\ last' = LmLast("remove", key, r)
        /\ UNCHANGED <<coordVars, extVars>>

\* The coordinator's tables and tick loop before anything was notified
CoordIdle ==
    /\ deposits = << >>
    /\ withdrawals = << >>
    /\ nullifiers = << >>
    /\ notes = [d \in {"d1", "d2"} |-> 0]
    /\ pc = "idle"
    /\ pendingD = << >>
    /\ pendingW = << >>
    /\ now = 1
    /\ registry = LoadResult(TokenConfig)
    /\ rwlock = LockIdle(<< >>)

\* No gateway deployed, no relayer started
ExtIdle ==
    /\ gateway = << >>
    /\ relayers = << >>
    /\ gossip = {}

\* LiquidityManager::new on a fresh database: load_pools finds no row
InitLiq ==
    /\ dbPools = << >>
    /\ pools = load_pools(dbPools)
    /\ last = NoLast
    /\ CoordIdle
    /\ ExtIdle

NextLiq ==
    \/ LockLiquidity
    \/ ReleaseLiquidity
    \/ AddLiquidity
    \/ RemoveLiquidity
    \/ EnsureLiquidity

SpecLiq == InitLiq /\ [][NextLiq]_vars

\* LiquidityManager::new on a database whose liquidity_pools rows were
\* provisioned with a target
InitSeeded ==
    /\ \E t \in 1..2 :
          dbPools = [k \in PoolKeys |-> [available |-> 1, locked |-> 0, target |-> t]]
    /\ pools = load_pools(dbPools)
    /\ last = NoLast
    /\ CoordIdle
    /\ ExtIdle

SpecSeeded == InitSeeded /\ [][NextLiq]_vars

\* The pool the tasks of the lock model address
GateKey == <<1, "0xA">>

gateUnchanged == <<coordVars, gateway, relayers, gossip, registry>>

\* self.liquidity_manager.read().await resolves for task t
BeginRead(t) ==
    /\ rwlock.task[t].pc = "idle"
    /\ can_read(rwlock)
    /\ rwlock' = [rwlock EXCEPT !.readers = @ \cup {t},
                                !.task[t] = [TaskIdle EXCEPT !.pc = "r1"]]
    /\ UNCHANGED <<pools, dbPools, last, gateUnchanged>>

\* The reader reads pool.available (ensure_liquidity, check_liquidity_handler)
ReadAvailable(t) ==
    /\ rwlock.task[t].pc = "r1"
    /\ rwlock' = [rwlock EXCEPT !.task[t].seen_available = pools[GateKey].available,
                                !.task[t].pc = "r2"]
    /\ UNCHANGED <<pools, dbPools, last, gateUnchanged>>

\* The reader reads pool.locked through the same guard
ReadLocked(t) ==
    /\ rwlock.task[t].pc = "r2"
    /\ rwlock' = [rwlock EXCEPT !.task[t].seen_locked = pools[GateKey].locked,
                                !.task[t].pc = "r3"]
    /\ UNCHANGED <<pools, dbPools, last, gateUnchanged>>

\* The read guard is dropped
EndRead(t) ==
    /\ rwlock.task[t].pc = "r3"
    /\ rwlock' = [rwlock EXCEPT !.readers = @ \ {t}, !.task[t] = TaskIdle]
    /\ last' = [op |-> "read", id |-> t, ok |-> TRUE, err |-> "none",
                rec |-> <<rwlock.task[t].seen_available, rwlock.task[t].seen_locked>>,
                reason |-> "none"]
    /\ UNCHANGED <<pools, dbPools, gateUnchanged>>

\* self.liquidity_manager.write().await resolves for task t, which then calls
\* one of its mutating operations
BeginWrite(t) ==
    /\ t \in DOMAIN WriterOps
    /\ rwlock.task[t].pc = "idle"
    /\ can_write(rwlock)
    /\ \E op \in WriterOps[t], amount \in Amounts :
        /\ op = "add" => Total(pools, GateKey) + amount <= MaxBalance
        /\ rwlock' = [rwlock EXCEPT !.writer = t,
                                    !.task[t] = [TaskIdle EXCEPT !.pc = "w1", !.op = op,
                                                                 !.amount = amount,
                                                                 !.pre = pools]]
    /\ UNCHANGED <<pools, dbPools, last, gateUnchanged>>

\* The operation's check and its first assignment to the pool
WriteFirst(t) ==
    /\ rwlock.task[t].pc = "w1"
    /\ LET op == rwlock.task[t].op
           amount == rwlock.task[t].amount
           pool == pools[GateKey]
       IN  CASE op = "lock" ->
                  IF pool.available < amount
                  THEN /\ rwlock' = [rwlock EXCEPT !.task[t].pc = "w4",
                                                   !.task[t].err = "Insufficient"]
                       /\ pools' = pools
                  ELSE /\ pools' = [pools EXCEPT ![GateKey].available = @ - amount]
                       /\ rwlock' = [rwlock EXCEPT !.task[t].pc = "w2"]
             [] op = "release" ->
                  IF pool.locked < amount
                  THEN /\ rwlock' = [rwlock EXCEPT !.task[t].pc = "w4"]
                       /\ pools' = pools
                  ELSE /\ pools' = [pools EXCEPT ![GateKey].locked = @ - amount]
                       /\ rwlock' = [rwlock EXCEPT !.task[t].pc = "w3"]
             [] op = "add" ->
                  /\ pools' = [pools EXCEPT ![GateKey].available = @ + amount]
                  /\ rwlock' = [rwlock EXCEPT !.task[t].pc = "w3"]
             [] op = "remove" ->
                  IF pool.available < amount
                  THEN /\ rwlock' = [rwlock EXCEPT !.task[t].pc = "w4",
                                                   !.task[t].err = "Insufficient"]
                       /\ pools' = pools
                  ELSE /\ pools' = [pools EXCEPT ![GateKey].available = @ - amount]
                       /\ rwlock' = [rwlock EXCEPT !.task[t].pc = "w3"]
    /\ UNCHANGED <<dbPools, last, gateUnchanged>>

\* lock_liquidity's second assignment: pool.locked += amount
WriteSecond(t) ==
    /\ rwlock.task[t].pc = "w2"
    /\ pools' = [pools EXCEPT ![GateKey].locked = @ + rwlock.task[t].amount]
    /\ rwlock' = [rwlock EXCEPT !.task[t].pc = "w3"]
    /\ UNCHANGED <<dbPools, last, gateUnchanged>>

\* The operation's update_liquidity_pool(..).await, with the guard still held
WriteDb(t) ==
    /\ rwlock.task[t].pc = "w3"
    /\ \E dbOk \in BOOLEAN :
        /\ dbPools' = IF dbOk
                      THEN update_liquidity_pool(dbPools, GateKey,
                                                 pools[GateKey].available,
                                                 pools[GateKey].locked)
                      ELSE dbPools
        /\ rwlock' = [rwlock EXCEPT !.task[t].pc = "w4",
                                    !.task[t].err = IF dbOk THEN "none" ELSE "Db"]
    /\ UNCHANGED <<pools, last, gateUnchanged>>

\* The operation returned; the write guard is dropped
EndWrite(t) ==
    /\ rwlock.task[t].pc = "w4"
    /\ rwlock' = [rwlock EXCEPT !.writer = "none", !.committed = pools,
                                !.task[t] = TaskIdle]
    /\ last' = [op |-> rwlock.task[t].op, id |-> t, ok |-> rwlock.task[t].err = "none",
                err |-> rwlock.task[t].err, rec |-> NULL, reason |-> "none"]
    /\ UNCHANGED <<pools, dbPools, gateUnchanged>>

\* The Coordinator started on a database that holds the pool's row
InitGate ==
    /\ \E a \in 0..1, l \in 0..1 :
          dbPools = [k \in {GateKey} |-> [available |-> a, locked |-> l, target |-> 0]]
    /\ pools = load_pools(dbPools)
    /\ rwlock = LockIdle(pools)
    /\ last = NoLast
    /\ deposits = << >>
    /\ withdrawals = << >>
    /\ nullifiers = << >>
    /\ notes = [d \in {"d1", "d2"} |-> 0]
    /\ pc = "idle"
    /\ pendingD = << >>
    /\ pendingW = << >>
    /\ now = 1
    /\ registry = LoadResult(TokenConfig)
    /\ ExtIdle

NextGate ==
    \/ \E t \in ReaderTasks : BeginRead(t)
    \/ \E t \in ReaderTasks : ReadAvailable(t)
    \/ \E t \in ReaderTasks : ReadLocked(t)
    \/ \E t \in ReaderTasks : EndRead(t)
    \/ \E t \in Tasks : BeginWrite(t)
    \/ \E t \in Tasks : WriteFirst(t)
    \/ \E t \in Tasks : WriteSecond(t)
    \/ \E t \in Tasks : WriteDb(t)
    \/ \E t \in Tasks : EndWrite(t)

SpecGate == InitGate /\ [][NextGate]_vars

\* TokenRegistry::load on one of the configuration files; nothing else runs
InitReg ==
    /\ \E cfg \in TokenConfigs : registry = LoadResult(cfg)
    /\ rwlock = LockIdle(<< >>)
    /\ dbPools = << >>
    /\ pools = << >>
    /\ last = NoLast
    /\ deposits = << >>
    /\ withdrawals = << >>
    /\ nullifiers = << >>
    /\ notes = [d \in {"d1", "d2"} |-> 0]
    /\ pc = "idle"
    /\ pendingD = << >>
    /\ pendingW = << >>
    /\ now = 1
    /\ ExtIdle

NextReg == GetTokenForChain \/ GetCanonicalId

PureLast(op, id, r) ==
    [op |-> op, id |-> id, ok |-> ~r.panic, err |-> IF r.panic THEN "panic" ELSE "none",
     rec |-> r.value, reason |-> "none"]

\* A call of LiquidityPool::needs_rebalancing on a pool of the manager
NeedsRebalancing ==
    \E key \in DOMAIN pools, threshold \in Thresholds, build \in Builds :
        /\ last' = PureLast("needs_rebalancing", <<key, threshold, build>>,
                            needs_rebalancing(pools[key], threshold, build))
        /\ UNCHANGED <<pools, dbPools, coordVars, extVars>>

\* A call of LiquidityPool::calculate_rebalance_amount on a pool of the manager
CalculateRebalanceAmount ==
    \E key \in DOMAIN pools, target \in Thresholds, build \in Builds :
        /\ last' = PureLast("calculate_rebalance_amount", <<key, target, build>>,
                            calculate_rebalance_amount(pools[key], target, build))
        /\ UNCHANGED <<pools, dbPools, coordVars, extVars>>

\* A call of LiquidityManager::check_rebalancing_needed
CheckRebalancingNeeded ==
    \E threshold \in Thresholds, build \in Builds :
        /\ last' = PureLast("check_rebalancing_needed", <<threshold, build>>,
                            check_rebalancing_needed(pools, threshold, build))
        /\ UNCHANGED <<pools, dbPools, coordVars, extVars>>

\* A call of LiquidityManager::trigger_rebalance; a panic ends the task and
\* leaves the table as it was
TriggerRebalance ==
    \E key \in DOMAIN pools, target \in Thresholds, cap \in RebalanceCaps,
       build \in Builds :
        LET r == trigger_rebalance(pools, key, target, cap, now, build) IN
        /\ pools' = IF r.panic THEN pools ELSE r.value
        /\ last' = PureLast("trigger_rebalance", <<key, target, build, cap>>, r)
        /\ UNCHANGED <<dbPools, coordVars, extVars>>

\* LiquidityManager::new on a database that holds a row for each pool: any
\* balances for (1, "0xA"), an empty or a mostly locked pool for (2, "0xb")
InitRebal ==
    /\ \E a, l \in 0..U64Max, second \in {<<0, 0>>, <<1, 3>>} :
          dbPools = [k \in PoolKeys |->
                        IF k = <<1, "0xA">>
                        THEN [available |-> a, locked |-> l, target |-> 0]
                        ELSE [available |-> second[1], locked |-> second[2],
                              target |-> 0]]
    /\ pools = load_pools(dbPools)
    /\ last = NoLast
    /\ CoordIdle
    /\ ExtIdle

NextRebal ==
    \/ NeedsRebalancing
    \/ CalculateRebalanceAmount
    \/ CheckRebalancingNeeded
    \/ TriggerRebalance

SpecRebal == InitRebal /\ [][NextRebal]_vars

SpecReg == InitReg /\ [][NextReg]_vars

-----------------------------------------------------------------------------
(* Coordinator store *)

DepositIds == {"d1", "d2"}

WithdrawalIds == {"w1", "w2"}

\* What the gateways emit: generate_deposit_id / generate_withdrawal_id hash the
\* fields of the request into its id, so an id stands for one set of fields.
\* d1 and w2 name the token in lower case; w1 and w2 share a nullifier.
DepositEvents ==
    { [deposit_id |-> "d1", target_chain_id |-> 1, token |-> "0xa", amount |-> 1],
      [deposit_id |-> "d2", target_chain_id |-> 1, token |-> "0xA", amount |-> MaxAmount] }

WithdrawalEvents ==
    { [withdrawal_id |-> "w1", target_chain_id |-> 1, recipient |-> "r1",
       token |-> "0xA", amount |-> 1, nullifier |-> "n1"],
      [withdrawal_id |-> "w2", target_chain_id |-> 1, recipient |-> "r2",
       token |-> "0xa", amount |-> 1, nullifier |-> "n1"] }

\* The proof bytes of a notification, by what the settlement capability makes
\* of them
Proofs == {"valid", "invalid"}

\* Database::store_deposit: a plain INSERT; a second row with the same primary
\* key is a constraint error.
store_deposit(tbl, d, dbOk) ==
    IF ~dbOk \/ d.deposit_id \in DOMAIN tbl THEN [ok |-> FALSE, tbl |-> tbl]
    ELSE [ok |-> TRUE,
          tbl |-> [k \in DOMAIN tbl \cup {d.deposit_id} |->
                      IF k = d.deposit_id THEN d ELSE tbl[k]]]

\* Database::store_withdrawal: a plain INSERT
store_withdrawal(tbl, w, dbOk) ==
    IF ~dbOk \/ w.withdrawal_id \in DOMAIN tbl THEN [ok |-> FALSE, tbl |-> tbl]
    ELSE [ok |-> TRUE,
          tbl |-> [k \in DOMAIN tbl \cup {w.withdrawal_id} |->
                      IF k = w.withdrawal_id THEN w ELSE tbl[k]]]

\* Database::mark_deposit_processed: UPDATE ... WHERE deposit_id = ?
mark_deposit_processed(tbl, id, note_commitment, zcash_txid) ==
    [k \in DOMAIN tbl |->
        IF k = id
        THEN [tbl[k] EXCEPT !.processed = TRUE,
                            !.note_commitment = note_commitment,
                            !.zcash_txid = zcash_txid]
        ELSE tbl[k]]

\* An authorize_withdrawal that sets the flag and leaves the signature column
authorize_withdrawal_flag_only(tbl, id, auth_signature) ==
    IF id \in DOMAIN tbl THEN [tbl EXCEPT ![id].authorized = TRUE] ELSE tbl

\* Database::authorize_withdrawal: UPDATE ... WHERE withdrawal_id = ?
authorize_withdrawal(tbl, id, auth_signature) ==
    [k \in DOMAIN tbl |->
        IF k = id
        THEN [tbl[k] EXCEPT !.authorized = TRUE, !.auth_signature = auth_signature]
        ELSE tbl[k]]

\* A mark_withdrawal_invalid whose DELETE matches no row
mark_withdrawal_invalid_keeps_row(tbl, id, reason) == tbl

\* Database::mark_withdrawal_invalid: DELETE ... WHERE withdrawal_id = ?; the
\* reason is not stored.
mark_withdrawal_invalid(tbl, id, reason) == [k \in DOMAIN tbl \ {id} |-> tbl[k]]

\* Database::mark_nullifier_spent: INSERT OR REPLACE ... spent = 1; the row's
\* value counts the writes (each write replaces spent_at).
mark_nullifier_spent(tbl, nullifier) ==
    [k \in DOMAIN tbl \cup {nullifier} |->
        IF k = nullifier THEN (IF k \in DOMAIN tbl THEN tbl[k] + 1 ELSE 1) ELSE tbl[k]]

\* Database::is_nullifier_spent
is_nullifier_spent(tbl, nullifier) == nullifier \in DOMAIN tbl

\* The sequences that list the rows `ids` of `tbl` in ascending created_at
\* (ORDER BY created_at ASC; rows with equal created_at in either order)
RECURSIVE Orderings(_, _)
Orderings(tbl, ids) ==
    IF ids = {} THEN { << >> }
    ELSE UNION { { <<tbl[i]>> \o rest : rest \in Orderings(tbl, ids \ {i}) } :
                 i \in {j \in ids : \A k \in ids : tbl[j].created_at <= tbl[k].created_at} }

\* A get_pending_deposits whose SELECT has no ORDER BY: the rows in any order
get_pending_deposits_unordered(tbl) ==
    LET ids == {i \in DOMAIN tbl : ~tbl[i].processed}
        Perm(f) == \A i \in ids : \E n \in DOMAIN f : f[n] = tbl[i]
    IN  {f \in UNION {[1..n -> {tbl[i] : i \in ids}] : n \in {Cardinality(ids)}} : Perm(f)}

\* Database::get_pending_deposits
get_pending_deposits(tbl) ==
    Orderings(tbl, {i \in DOMAIN tbl : ~tbl[i].processed})

\* Database::get_pending_withdrawals
get_pending_withdrawals(tbl) ==
    Orderings(tbl, {i \in DOMAIN tbl : ~tbl[i].authorized})

\* Database::get_authorized_withdrawals
get_authorized_withdrawals(tbl) ==
    Orderings(tbl, {i \in DOMAIN tbl : tbl[i].authorized})

-----------------------------------------------------------------------------
(* Shielded settlement capability (ShieldedPoolManager) *)

\* ShieldedPoolManager::create_deposit_note: a successful call creates one more
\* note; the call is not given the deposit_id.  `n` counts the notes created so
\* far for the same arguments; the commitment names the new note.
create_deposit_note(deposit, n) ==
    [note_commitment |-> <<"cm", deposit.deposit_id, n + 1>>,
     zcash_txid |-> <<"tx", deposit.deposit_id, n + 1>>]

\* ShieldedPoolManager::verify_withdrawal_proof: the nullifier must not be spent
\* in the local store and the proof must verify.
verify_withdrawal_proof(nulls, nullifier, zcash_proof) ==
    ~is_nullifier_spent(nulls, nullifier) /\ zcash_proof = "valid"

\* A mark_nullifier_spent that returns Ok and records nothing
pool_mark_nullifier_spent_nowhere(nulls, nullifier) == nulls

\* ShieldedPoolManager::mark_nullifier_spent
pool_mark_nullifier_spent(nulls, nullifier) == mark_nullifier_spent(nulls, nullifier)

-----------------------------------------------------------------------------
(* Coordinator engine *)

\* Where a handler's run can meet a failing collaborator: the settlement
\* capability or one of the store writes.  The handler returns at the first
\* failure, so one point per run covers every combination.
DepositFaults == {"none", "note", "lock_db", "mark_db"}

WithdrawalFaults == {"none", "verify", "nullifier_db", "authorize_db", "release_db",
                     "delete_db"}

DepRes(deps, ps, db, n, err) ==
    [deposits |-> deps, pools |-> ps, db |-> db, notes |-> n,
     ok |-> (err = "none"), err |-> err]

\* A handle_deposit that persists processed = true before it locks the liquidity
handle_deposit_marks_first(deposit, deps, ps, db, n, fault) ==
    LET token_info == get_token_for_chain(registry.reg, deposit.target_chain_id,
                                          deposit.token)
    IN
    IF ~token_info.ok THEN DepRes(deps, ps, db, n, "TokenNotFound")
    ELSE
    LET key == <<deposit.target_chain_id, token_info.address>> IN
    IF ensure_liquidity(ps, key, deposit.amount) # "none"
    THEN DepRes(deps, ps, db, n, ensure_liquidity(ps, key, deposit.amount))
    ELSE IF fault = "note" THEN DepRes(deps, ps, db, n, "NoteFailed")
    ELSE
    LET note == create_deposit_note(deposit, n)
        deps2 == mark_deposit_processed(deps, deposit.deposit_id,
                                        note.note_commitment, note.zcash_txid)
        lk == lock_liquidity(ps, db, key, deposit.amount, fault # "lock_db")
    IN
    IF fault = "mark_db" THEN DepRes(deps, ps, db, n + 1, "MarkFailed")
    ELSE IF ~lk.ok THEN DepRes(deps2, lk.pools, lk.db, n + 1, "LockFailed")
    ELSE DepRes(deps2, lk.pools, lk.db, n + 1, "none")

\* Coordinator::handle_deposit
handle_deposit(deposit, deps, ps, db, n, fault) ==
    LET token_info == get_token_for_chain(registry.reg, deposit.target_chain_id,
                                          deposit.token)
    IN
    IF ~token_info.ok THEN DepRes(deps, ps, db, n, "TokenNotFound")
    ELSE
    LET key == <<deposit.target_chain_id, token_info.address>> IN
    IF ensure_liquidity(ps, key, deposit.amount) # "none"
    THEN DepRes(deps, ps, db, n, ensure_liquidity(ps, key, deposit.amount))
    ELSE IF fault = "note" THEN DepRes(deps, ps, db, n, "NoteFailed")
    ELSE
    LET note == create_deposit_note(deposit, n)
        lk == lock_liquidity(ps, db, key, deposit.amount, fault # "lock_db")
    IN
    IF ~lk.ok THEN DepRes(deps, lk.pools, lk.db, n + 1, "LockFailed")
    ELSE IF fault = "mark_db" THEN DepRes(deps, lk.pools, lk.db, n + 1, "MarkFailed")
    ELSE DepRes(mark_deposit_processed(deps, deposit.deposit_id,
                                       note.note_commitment, note.zcash_txid),
                lk.pools, lk.db, n + 1, "none")

\* The bytes a hasher is fed for one field.  str::as_bytes of a string:
as_bytes(s) == [enc |-> "utf8", text |-> s, bytes |-> << >>]

\* a byte vector (the 32 bytes of a nullifier) as it is:
raw_bytes(v) == [enc |-> "raw", text |-> v, bytes |-> << >>]

\* the bytes of the lower-case hex string hex::encode makes of a byte vector:
hex_as_bytes(v) == [enc |-> "hex", text |-> v, bytes |-> << >>]

\* The width low bytes of n, least significant first
RECURSIVE LeBytes(_, _)
LeBytes(n, width) ==
    IF width = 0 THEN << >> ELSE << n % 256 >> \o LeBytes(n \div 256, width - 1)

\* uN::to_le_bytes, width in bytes:
to_le_bytes(n, width) == [enc |-> "int", text |-> "", bytes |-> LeBytes(n, width)]

\* The decimal digits of n, most significant first
RECURSIVE Digits(_)
Digits(n) == IF n < 10 THEN << n >> ELSE Digits(n \div 10) \o << n % 10 >>

\* Uint128::to_string().as_bytes(): the ASCII codes of the decimal digits
to_string_as_bytes(n) ==
    [enc |-> "int", text |-> "", bytes |-> [i \in 1..Len(Digits(n)) |-> 48 + Digits(n)[i]]]

\* Coordinator::generate_withdrawal_signature: SHA-256 over the fields in this
\* order, the amount as 8 little-endian bytes, the nullifier as raw bytes; the
\* digest itself is returned as the signature
generate_withdrawal_signature(withdrawal_id, recipient, token, amount, nullifier) ==
    <<"sha256", as_bytes(withdrawal_id), as_bytes(recipient), as_bytes(token),
      to_le_bytes(amount, 8), raw_bytes(nullifier)>>

WdRes(wds, nulls, ps, db, err) ==
    [withdrawals |-> wds, nullifiers |-> nulls, pools |-> ps, db |-> db,
     ok |-> (err \in {"none", "Discarded"}), err |-> err,
     reason |-> IF err = "Discarded" THEN "Invalid proof" ELSE "none"]

\* A handle_withdrawal whose verification looks at the proof only, not at the
\* spent nullifiers
handle_withdrawal_proof_only(withdrawal, wds, nulls, ps, db, fault) ==
    IF fault = "verify" THEN WdRes(wds, nulls, ps, db, "VerifyFailed")
    ELSE IF withdrawal.zcash_proof # "valid"
    THEN IF fault = "delete_db" THEN WdRes(wds, nulls, ps, db, "DeleteFailed")
         ELSE WdRes(mark_withdrawal_invalid(wds, withdrawal.withdrawal_id,
                                            "Invalid proof"),
                    nulls, ps, db, "Discarded")
    ELSE IF fault = "nullifier_db" THEN WdRes(wds, nulls, ps, db, "NullifierFailed")
    ELSE
    LET nulls2 == pool_mark_nullifier_spent(nulls, withdrawal.nullifier)
        token_info == get_token_for_chain(registry.reg, withdrawal.target_chain_id,
                                          withdrawal.token)
    IN
    IF ~token_info.ok THEN WdRes(wds, nulls2, ps, db, "TokenNotFound")
    ELSE
    LET auth_signature ==
            generate_withdrawal_signature(withdrawal.withdrawal_id, withdrawal.recipient,
                                          token_info.address, withdrawal.amount,
                                          withdrawal.nullifier)
    IN
    IF fault = "authorize_db" THEN WdRes(wds, nulls2, ps, db, "AuthorizeFailed")
    ELSE
    LET wds2 == authorize_withdrawal(wds, withdrawal.withdrawal_id, auth_signature)
        rl == release_liquidity(ps, db, <<withdrawal.target_chain_id, token_info.address>>,
                                withdrawal.amount, fault # "release_db")
    IN
    IF ~rl.ok THEN WdRes(wds2, nulls2, rl.pools, rl.db, "ReleaseFailed")
    ELSE WdRes(wds2, nulls2, rl.pools, rl.db, "none")

\* Coordinator::handle_withdrawal
handle_withdrawal(withdrawal, wds, nulls, ps, db, fault) ==
    IF fault = "verify" THEN WdRes(wds, nulls, ps, db, "VerifyFailed")
    ELSE IF ~verify_withdrawal_proof(nulls, withdrawal.nullifier, withdrawal.zcash_proof)
    THEN IF fault = "delete_db" THEN WdRes(wds, nulls, ps, db, "DeleteFailed")
         ELSE WdRes(mark_withdrawal_invalid(wds, withdrawal.withdrawal_id,
                                            "Invalid proof"),
                    nulls, ps, db, "Discarded")
    ELSE IF fault = "nullifier_db" THEN WdRes(wds, nulls, ps, db, "NullifierFailed")
    ELSE
    LET nulls2 == pool_mark_nullifier_spent(nulls, withdrawal.nullifier)
        token_info == get_token_for_chain(registry.reg, withdrawal.target_chain_id,
                                          withdrawal.token)
    IN
    IF ~token_info.ok THEN WdRes(wds, nulls2, ps, db, "TokenNotFound")
    ELSE
    LET auth_signature ==
            generate_withdrawal_signature(withdrawal.withdrawal_id, withdrawal.recipient,
                                          token_info.address, withdrawal.amount,
                                          withdrawal.nullifier)
    IN
    IF fault = "authorize_db" THEN WdRes(wds, nulls2, ps, db, "AuthorizeFailed")
    ELSE
    LET wds2 == authorize_withdrawal(wds, withdrawal.withdrawal_id, auth_signature)
        rl == release_liquidity(ps, db, <<withdrawal.target_chain_id, token_info.address>>,
                                withdrawal.amount, fault # "release_db")
    IN
    IF ~rl.ok THEN WdRes(wds2, nulls2, rl.pools, rl.db, "ReleaseFailed")
    ELSE WdRes(wds2, nulls2, rl.pools, rl.db, "none")

-----------------------------------------------------------------------------
(* RPC surface and tick loop *)

OpLast(op, id, ok, err, rec, reason) ==
    [op |-> op, id |-> id, ok |-> ok, err |-> err, rec |-> rec, reason |-> reason]

\* deposit_status_handler: GET /deposits/{id}/status; the row is looked up among
\* the rows get_pending_deposits returns
deposit_status_handler(tbl, deposit_id) ==
    LET pending == CHOOSE rows \in get_pending_deposits(tbl) : TRUE
        hits == {i \in 1..Len(pending) : pending[i].deposit_id = deposit_id}
    IN  IF hits = {} THEN [status |-> 404, body |-> NULL]
        ELSE LET d == pending[CHOOSE i \in hits : \A j \in hits : i <= j]
             IN  [status |-> 200,
                  body |-> [deposit_id |-> d.deposit_id, processed |-> d.processed,
                            zcash_txid |-> d.zcash_txid,
                            note_commitment |-> d.note_commitment]]

\* CoordinatorClient::check_deposit_status on the handler's response
check_deposit_status(response) ==
    IF response.status # 200 THEN FALSE ELSE response.body.processed

\* authorized_withdrawals_handler on the rows get_authorized_withdrawals
\* returned: the rows with a signature, as AuthorizedWithdrawal items
AuthorizedItems(rows) ==
    LET HasSig(w) == w.auth_signature # NULL
        signed == SelectSeq(rows, HasSig)
    IN  [i \in 1..Len(signed) |->
            [withdrawal_id |-> signed[i].withdrawal_id,
             target_chain_id |-> signed[i].target_chain_id,
             recipient |-> signed[i].recipient, token |-> signed[i].token,
             amount |-> signed[i].amount, nullifier |-> signed[i].nullifier,
             authorization_signature |-> signed[i].auth_signature]]

\* authorized_withdrawals_handler: GET /withdrawals/authorized; the answers it
\* can give (rows of equal created_at come in any order)
authorized_withdrawals_handler(tbl) ==
    {AuthorizedItems(rows) : rows \in get_authorized_withdrawals(tbl)}

\* The fields of the relayer's AuthorizedWithdrawal; none has a serde default
RelayerAuthorizedWithdrawal ==
    {"withdrawal_id", "target_chain_id", "recipient", "token", "amount",
     "nullifier", "authorization_signature", "timestamp"}

\* serde's derived Deserialize for the relayer's AuthorizedWithdrawal on a JSON
\* object: every field of the struct must be present, other keys are ignored
deserialize_AuthorizedWithdrawal(object) ==
    IF RelayerAuthorizedWithdrawal \subseteq DOMAIN object
    THEN [ok |-> TRUE, value |-> [f \in RelayerAuthorizedWithdrawal |-> object[f]]]
    ELSE [ok |-> FALSE, value |-> NULL]

\* CoordinatorClient::query_authorized_withdrawals on a response with a status
\* and a JSON array as body
query_authorized_withdrawals(response) ==
    IF response.status # 200 THEN [ok |-> FALSE, err |-> "status", withdrawals |-> << >>]
    ELSE IF \E i \in 1..Len(response.body) :
                ~deserialize_AuthorizedWithdrawal(response.body[i]).ok
         THEN [ok |-> FALSE, err |-> "decode", withdrawals |-> << >>]
         ELSE [ok |-> TRUE, err |-> "none",
               withdrawals |-> [i \in 1..Len(response.body) |->
                                   deserialize_AuthorizedWithdrawal(response.body[i]).value]]

\* `as u64` on an i64: the two's-complement bits read as unsigned
i64_as_u64(x) == IF x < 0 THEN Pow2(WordBits) + x ELSE x

\* SQL SUM(amount) over the rows named by ids
RECURSIVE SumAmount(_, _)
SumAmount(tbl, ids) ==
    IF ids = {} THEN 0
    ELSE LET id == CHOOSE x \in ids : TRUE
         IN  tbl[id].amount + SumAmount(tbl, ids \ {id})

\* Database::get_stats: the three queries and the Stats built from them; SUM
\* raises an integer-overflow error beyond i64
get_stats(depositTbl, withdrawalTbl) ==
    LET deposits_0    == Cardinality({d \in DOMAIN depositTbl : depositTbl[d].processed})
        withdrawals_0 == Cardinality({w \in DOMAIN withdrawalTbl :
                                         withdrawalTbl[w].authorized})
        volume_0      == SumAmount(depositTbl,
                                   {d \in DOMAIN depositTbl : depositTbl[d].processed})
    IN  IF volume_0 > I64Max THEN [ok |-> FALSE, stats |-> NULL]
        ELSE [ok |-> TRUE,
              stats |-> [total_deposits |-> i64_as_u64(deposits_0),
                         total_withdrawals |-> i64_as_u64(withdrawals_0),
                         total_volume |-> i64_as_u64(volume_0),
                         active_deposits |-> i64_as_u64(deposits_0 - withdrawals_0)]]

\* stats_handler: GET /stats
stats_handler(depositTbl, withdrawalTbl) ==
    LET stats == get_stats(depositTbl, withdrawalTbl) IN
    IF ~stats.ok THEN [status |-> 500, body |-> NULL]
    ELSE [status |-> 200, body |-> stats.stats]

\* notify_deposit_handler: POST /deposits/notify
NotifyDeposit ==
    \E ev \in DepositEvents, dbOk \in BOOLEAN :
        LET deposit == [deposit_id |-> ev.deposit_id,
                        target_chain_id |-> ev.target_chain_id,
                        token |-> ev.token, amount |-> ev.amount,
                        processed |-> FALSE, zcash_txid |-> NULL,
                        note_commitment |-> NULL, created_at |-> now]
            r == store_deposit(deposits, deposit, dbOk)
        IN  /\ deposits' = r.tbl
            /\ UNCHANGED <<extVars, pools, dbPools, withdrawals, nullifiers, notes, pc,
                           pendingD, pendingW, now, last>>

\* notify_withdrawal_handler: POST /withdrawals/notify
NotifyWithdrawal ==
    \E ev \in WithdrawalEvents, zcash_proof \in Proofs, dbOk \in BOOLEAN :
        LET withdrawal == [withdrawal_id |-> ev.withdrawal_id,
                           target_chain_id |-> ev.target_chain_id,
                           recipient |-> ev.recipient,
                           token |-> ev.token, amount |-> ev.amount,
                           nullifier |-> ev.nullifier, zcash_proof |-> zcash_proof,
                           authorized |-> FALSE, auth_signature |-> NULL,
                           created_at |-> now]
            r == store_withdrawal(withdrawals, withdrawal, dbOk)
        IN  /\ withdrawals' = r.tbl
            /\ UNCHANGED <<extVars, pools, dbPools, deposits, nullifiers, notes, pc,
                           pendingD, pendingW, now, last>>

\* Coordinator::run, a tick begins: process_deposits reads the pending deposits
TickStart ==
    /\ pc = "idle"
    /\ pendingD' \in get_pending_deposits(deposits)
    /\ pc' = "deposits"
    /\ UNCHANGED <<extVars, pools, dbPools, deposits, withdrawals, nullifiers, notes,
                   pendingW, now, last>>

\* A process_deposits that returns at the first failing deposit
HandleDepositAborting ==
    /\ pc = "deposits"
    /\ pendingD # << >>
    /\ \E fault \in DepositFaults :
        LET deposit == Head(pendingD)
            r == handle_deposit(deposit, deposits, pools, dbPools,
                                notes[deposit.deposit_id], fault)
        IN  /\ deposits' = r.deposits
            /\ pools' = r.pools
            /\ dbPools' = r.db
            /\ notes' = [notes EXCEPT ![deposit.deposit_id] = r.notes]
            /\ last' = OpLast("deposit", deposit.deposit_id, r.ok, r.err, NULL, "none")
            /\ pendingD' = IF r.ok THEN Tail(pendingD) ELSE << >>
    /\ UNCHANGED <<extVars, withdrawals, nullifiers, pc, pendingW, now>>

\* process_deposits, one turn of its loop: handle_deposit on the next row
HandleDeposit ==
    /\ pc = "deposits"
    /\ pendingD # << >>
    /\ \E fault \in DepositFaults :
        LET deposit == Head(pendingD)
            r == handle_deposit(deposit, deposits, pools, dbPools,
                                notes[deposit.deposit_id], fault)
        IN  /\ deposits' = r.deposits
            /\ pools' = r.pools
            /\ dbPools' = r.db
            /\ notes' = [notes EXCEPT ![deposit.deposit_id] = r.notes]
            /\ last' = OpLast("deposit", deposit.deposit_id, r.ok, r.err, NULL, "none")
    /\ pendingD' = Tail(pendingD)
    /\ UNCHANGED <<extVars, withdrawals, nullifiers, pc, pendingW, now>>

\* process_deposits is through; process_withdrawals reads the pending withdrawals
StartWithdrawals ==
    /\ pc = "deposits"
    /\ pendingD = << >>
    /\ pendingW' \in get_pending_withdrawals(withdrawals)
    /\ pc' = "withdrawals"
    /\ UNCHANGED <<extVars, pools, dbPools, deposits, withdrawals, nullifiers, notes,
                   pendingD, now, last>>

\* process_withdrawals, one turn of its loop: handle_withdrawal on the next row
HandleWithdrawal ==
    /\ pc = "withdrawals"
    /\ pendingW # << >>
    /\ \E fault \in WithdrawalFaults :
        LET withdrawal == Head(pendingW)
            r == handle_withdrawal(withdrawal, withdrawals, nullifiers, pools,
                                   dbPools, fault)
        IN  /\ withdrawals' = r.withdrawals
            /\ nullifiers' = r.nullifiers
            /\ pools' = r.pools
            /\ dbPools' = r.db
            /\ last' = OpLast("withdrawal", withdrawal.withdrawal_id, r.ok, r.err,
                              withdrawal, r.reason)
    /\ pendingW' = Tail(pendingW)
    /\ UNCHANGED <<extVars, deposits, notes, pc, pendingD, now>>

\* The tick ends; the loop waits for the next interval
TickEnd ==
    /\ pc = "withdrawals"
    /\ pendingW = << >>
    /\ pc' = "idle"
    /\ UNCHANGED <<extVars, pools, dbPools, deposits, withdrawals, nullifiers, notes,
                   pendingD, pendingW, now, last>>

\* The liquidity_pools rows the coordinator finds at start-up: the pool of
\* (1, "0xA") holds MaxBalance available and nothing locked, the pool of
\* (2, "0xb") one unit of each.
InitDb ==
    [k \in PoolKeys |->
        IF k = <<1, "0xA">> THEN [available |-> MaxBalance, locked |-> 0, target |-> 0]
        ELSE [available |-> 1, locked |-> 1, target |-> 0]]

Init ==
    /\ dbPools = InitDb
    /\ pools = load_pools(dbPools)
    /\ last = NoLast
    /\ CoordIdle
    /\ ExtIdle

Next ==
    \/ NotifyDeposit
    \/ NotifyWithdrawal
    \/ TickStart
    \/ HandleDeposit
    \/ StartWithdrawals
    \/ HandleWithdrawal
    \/ TickEnd

Spec == Init /\ [][Next]_vars

\* A token configuration without a representation on chain 1, the chain the
\* notified deposits and withdrawals name
ForeignConfig ==
    << [symbol |-> "USDC",
        representations |-> << [chain_id |-> 2, address |-> "0xb"] >>] >>

\* The Coordinator started with either token configuration
InitIso ==
    /\ dbPools = InitDb
    /\ pools = load_pools(dbPools)
    /\ last = NoLast
    /\ deposits = << >>
    /\ withdrawals = << >>
    /\ nullifiers = << >>
    /\ notes = [d \in {"d1", "d2"} |-> 0]
    /\ pc = "idle"
    /\ pendingD = << >>
    /\ pendingW = << >>
    /\ now = 1
    /\ registry \in {LoadResult(TokenConfig), LoadResult(ForeignConfig)}
    /\ rwlock = LockIdle(<< >>)
    /\ ExtIdle

\* Coordinator::run never stops ticking: the interval fires and each await of
\* the loop body returns
TickFairness ==
    /\ WF_vars(TickStart)
    /\ WF_vars(HandleDeposit)
    /\ WF_vars(StartWithdrawals)
    /\ WF_vars(HandleWithdrawal)
    /\ WF_vars(TickEnd)

SpecIso == InitIso /\ [][Next]_vars /\ TickFairness

\* The tick loop with deposit notifications only
NextRetry ==
    \/ NotifyDeposit
    \/ TickStart
    \/ HandleDeposit
    \/ StartWithdrawals
    \/ TickEnd

\* The Coordinator started with either token configuration and notified of
\* deposits only, the tick loop running forever
SpecRetry ==
    /\ InitIso
    /\ [][NextRetry]_vars
    /\ WF_vars(TickStart)
    /\ WF_vars(HandleDeposit)
    /\ WF_vars(StartWithdrawals)
    /\ WF_vars(TickEnd)

\* The withdrawal pipeline invoked once more on the record it was last given
\* (a second caller holding the same pending row)
HandleWithdrawalAgain ==
    /\ last.op = "withdrawal"
    /\ \E fault \in WithdrawalFaults :
        LET r == handle_withdrawal(last.rec, withdrawals, nullifiers, pools,
                                   dbPools, fault)
        IN  /\ withdrawals' = r.withdrawals
            /\ nullifiers' = r.nullifiers
            /\ pools' = r.pools
            /\ dbPools' = r.db
            /\ last' = OpLast("withdrawal_again", last.id, r.ok, r.err, last.rec,
                              r.reason)
    /\ UNCHANGED <<extVars, deposits, notes, pc, pendingD, pendingW, now>>

NextRace == Next \/ HandleWithdrawalAgain

SpecRace == Init /\ [][NextRace]_vars

-----------------------------------------------------------------------------
(* Destination gateways: NEARGateway (near-adapter) and the Osmosis contract *)

GatewayKinds == {"near", "osmosis"}

\* How many withdrawal requests a gateway takes in the model
MaxRequests == 2

GwNullifiers == {"n1", "n2"}

\* The signatures handed to execute_withdrawal: a 65-byte (r, s, v) signature,
\* and the 32-byte SHA-256 digest generate_withdrawal_signature returns
GwSignatures == {"sig65", "hash32"}

sig_len(signature) == IF signature = "sig65" THEN 65 ELSE 32

\* generate_withdrawal_id: a hash over the fields and the request counter
generate_withdrawal_id(recipient, token, amount, nullifier, withdrawal_count) ==
    <<"wid", recipient, token, amount, nullifier, withdrawal_count>>

\* NEARGateway::verify_coordinator_signature, the message hash it builds:
\* keccak256 over id, recipient, the u128 amount as 16 little-endian bytes and
\* the nullifier's hex string
near_message_hash(withdrawal_id, request) ==
    <<"keccak256", as_bytes(withdrawal_id), as_bytes(request.recipient),
      to_le_bytes(request.amount, 16), hex_as_bytes(request.nullifier)>>

\* Osmosis verify_coordinator_signature, the message hash it builds: SHA-256
\* over id, recipient, token, the amount's decimal string and the nullifier's
\* hex string
osmosis_message_hash(withdrawal_id, recipient, token, amount, nullifier) ==
    <<"sha256", as_bytes(withdrawal_id), as_bytes(recipient), as_bytes(token),
      to_string_as_bytes(amount), hex_as_bytes(nullifier)>>

\* The outcome of a gateway call: the storage it leaves, Ok / the error
GwRes(st, err) == [st |-> st, ok |-> (err = "none"), err |-> err]

\* set_paused / execute_set_paused, called by the owner
set_paused(st, paused) == GwRes([st EXCEPT !.paused = paused], "none")

\* request_withdrawal / execute_request_withdrawal
request_withdrawal(st, recipient, token, amount, nullifier) ==
    IF st.paused THEN GwRes(st, "Paused")
    ELSE IF amount = 0 THEN GwRes(st, "InvalidAmount")
    ELSE IF nullifier \in st.nullifiers THEN GwRes(st, "NullifierUsed")
    ELSE
    LET withdrawal_id == generate_withdrawal_id(recipient, token, amount, nullifier,
                                                st.withdrawal_count)
        request == [withdrawal_id |-> withdrawal_id, recipient |-> recipient,
                    token |-> token, amount |-> amount, nullifier |-> nullifier,
                    executed |-> FALSE]
    IN  GwRes([st EXCEPT !.withdrawal_requests =
                             [k \in DOMAIN @ \cup {withdrawal_id} |->
                                 IF k = withdrawal_id THEN request ELSE @[k]],
                         !.withdrawal_count = @ + 1],
              "none")

\* The storage after a withdrawal was released: request executed, nullifier
\* used, locked balance reduced, the transfer to the recipient issued
GwReleased(st, withdrawal_id) ==
    LET request == st.withdrawal_requests[withdrawal_id] IN
    [st EXCEPT !.withdrawal_requests[withdrawal_id].executed = TRUE,
               !.nullifiers = @ \cup {request.nullifier},
               !.locked_balance = @ - request.amount,
               !.total_withdrawals = @ + request.amount,
               !.transfers = @ \o << withdrawal_id >>]

\* An execute_withdrawal of the NEAR gateway without the nullifier check
near_execute_withdrawal_no_nullifier_check(st, withdrawal_id, coordinator_signature) ==
    IF st.paused THEN GwRes(st, "Paused")
    ELSE IF withdrawal_id \notin DOMAIN st.withdrawal_requests THEN GwRes(st, "NotFound")
    ELSE
    LET request == st.withdrawal_requests[withdrawal_id] IN
    IF request.executed THEN GwRes(st, "AlreadyExecuted")
    ELSE IF sig_len(coordinator_signature) # 65 THEN GwRes(st, "InvalidSignature")
    ELSE IF st.locked_balance < request.amount
         THEN GwRes(st, "InsufficientLockedBalance")
    ELSE GwRes(GwReleased(st, withdrawal_id), "none")

\* NEARGateway::execute_withdrawal; a failed require! panics and the call's
\* writes are discarded
near_execute_withdrawal(st, withdrawal_id, coordinator_signature) ==
    IF st.paused THEN GwRes(st, "Paused")
    ELSE IF withdrawal_id \notin DOMAIN st.withdrawal_requests THEN GwRes(st, "NotFound")
    ELSE
    LET request == st.withdrawal_requests[withdrawal_id] IN
    IF request.executed THEN GwRes(st, "AlreadyExecuted")
    ELSE IF request.nullifier \in st.nullifiers THEN GwRes(st, "NullifierUsed")
    ELSE IF sig_len(coordinator_signature) # 65 THEN GwRes(st, "InvalidSignature")
    ELSE IF st.locked_balance < request.amount
         THEN GwRes(st, "InsufficientLockedBalance")
    ELSE GwRes(GwReleased(st, withdrawal_id), "none")

\* Osmosis execute_execute_withdrawal
osmosis_execute_withdrawal(st, withdrawal_id, coordinator_signature) ==
    IF st.paused THEN GwRes(st, "Paused")
    ELSE IF withdrawal_id \notin DOMAIN st.withdrawal_requests THEN GwRes(st, "NotFound")
    ELSE
    LET request == st.withdrawal_requests[withdrawal_id] IN
    IF request.executed THEN GwRes(st, "AlreadyExecuted")
    ELSE IF request.nullifier \in st.nullifiers THEN GwRes(st, "NullifierUsed")
    ELSE IF st.locked_balance < request.amount
         THEN GwRes(st, "InsufficientLockedBalance")
    ELSE IF sig_len(coordinator_signature) # 65 THEN GwRes(st, "InvalidSignature")
    ELSE GwRes(GwReleased(st, withdrawal_id), "none")

\* execute_withdrawal of the deployed gateway
execute_withdrawal(st, withdrawal_id, coordinator_signature) ==
    IF st.kind = "near"
    THEN near_execute_withdrawal(st, withdrawal_id, coordinator_signature)
    ELSE osmosis_execute_withdrawal(st, withdrawal_id, coordinator_signature)

\* The withdrawal ids a caller can name: every id the gateway could ever issue
GwWithdrawalIds ==
    {generate_withdrawal_id("r1", "T", a, n, c) :
        a \in 1..MaxAmount, n \in GwNullifiers, c \in 0..(MaxRequests - 1)}

GwLast(op, id, r) == [op |-> op, id |-> id, ok |-> r.ok, err |-> r.err, rec |-> NULL,
                      reason |-> "none"]

coordAll == <<pools, dbPools, deposits, withdrawals, nullifiers, notes, pc,
              pendingD, pendingW, now, auxVars>>

\* The owner pauses or unpauses the gateway
SetPaused ==
    \E paused \in BOOLEAN :
        LET r == set_paused(gateway, paused) IN
        /\ gateway' = r.st
        /\ last' = GwLast("set_paused", "none", r)
        /\ UNCHANGED <<coordAll, relayers, gossip>>

\* A user calls request_withdrawal
RequestWithdrawal ==
    /\ gateway.withdrawal_count < MaxRequests
    /\ \E amount \in Amounts, nullifier \in GwNullifiers :
        LET r == request_withdrawal(gateway, "r1", "T", amount, nullifier) IN
        /\ gateway' = r.st
        /\ last' = GwLast("request_withdrawal", "none", r)
        /\ UNCHANGED <<coordAll, relayers, gossip>>

\* Anyone (a relayer, any number of times) calls execute_withdrawal
ExecuteWithdrawal ==
    \E withdrawal_id \in GwWithdrawalIds, coordinator_signature \in GwSignatures :
        LET r == execute_withdrawal(gateway, withdrawal_id, coordinator_signature) IN
        /\ gateway' = r.st
        /\ last' = GwLast("execute_withdrawal", withdrawal_id, r)
        /\ UNCHANGED <<coordAll, relayers, gossip>>

\* NEARGateway::new / instantiate, followed by deposits that locked MaxBalance
InitGw ==
    /\ \E kind \in GatewayKinds :
        gateway = [kind |-> kind, paused |-> FALSE, withdrawal_requests |-> << >>,
                   nullifiers |-> {}, locked_balance |-> MaxBalance,
                   withdrawal_count |-> 0, total_withdrawals |-> 0,
                   transfers |-> << >>]
    /\ relayers = << >>
    /\ gossip = {}
    /\ dbPools = << >>
    /\ pools = << >>
    /\ last = NoLast
    /\ CoordIdle

NextGw == SetPaused \/ RequestWithdrawal \/ ExecuteWithdrawal

SpecGw == InitGw /\ [][NextGw]_vars

-----------------------------------------------------------------------------
(* Relayer swarm: P2PNetwork claims, poll loop, gossip *)

\* relayer_identity.address of the two instances
Relayers == {"ra", "rb"}

\* The withdrawals the Coordinator may list as authorized
TaskIds == {"w1"}

\* The claim lease: 300 s in broadcast_task_claim and handle_claim_message,
\* scaled to clock steps
ClaimLease == 2

\* The last clock value of the model
MaxTime == 4

\* What GET /withdrawals/authorized can answer a poll with: any of the
\* authorized withdrawals, in creation order
PollLists == {<< >>, << "w1" >>}

\* P2PNetwork::is_task_claimed with a lease check that never lets a claim lapse
is_task_claimed_forever(task_claims, task_id, t) == task_id \in DOMAIN task_claims

\* P2PNetwork::is_task_claimed
is_task_claimed(task_claims, task_id, t) ==
    IF task_id \in DOMAIN task_claims
    THEN task_claims[task_id].expires_at > t
    ELSE FALSE

\* HashMap::insert on task_claims
InsertClaim(task_claims, claim) ==
    [k \in DOMAIN task_claims \cup {claim.task_id} |->
        IF k = claim.task_id THEN claim ELSE task_claims[k]]

\* HashMap::remove on task_claims
RemoveClaim(task_claims, task_id) ==
    [k \in DOMAIN task_claims \ {task_id} |-> task_claims[k]]

\* P2PNetwork::gossip_message: the message goes out to every peer
gossip_message(msgs, from, kind, task_id, tx_hash) ==
    msgs \cup {[to |-> peer, kind |-> kind, task_id |-> task_id, tx_hash |-> tx_hash] :
                  peer \in Relayers \ {from}}

\* A broadcast_task_claim whose lease ends at the moment it is taken
broadcast_task_claim_no_lease(task_claims, msgs, self, task_id, t) ==
    [task_claims |-> InsertClaim(task_claims,
                        [task_id |-> task_id, claimed_by |-> self, claimed_at |-> t,
                         expires_at |-> t]),
     gossip |-> gossip_message(msgs, self, "CLAIM", task_id, "none")]

\* P2PNetwork::broadcast_task_claim: the claim is stored locally, then gossiped
broadcast_task_claim(task_claims, msgs, self, task_id, t) ==
    [task_claims |-> InsertClaim(task_claims,
                        [task_id |-> task_id, claimed_by |-> self, claimed_at |-> t,
                         expires_at |-> t + ClaimLease]),
     gossip |-> gossip_message(msgs, self, "CLAIM", task_id, "none")]

\* P2PNetwork::broadcast_withdrawal_execution: the claim is removed, then
\* EXECUTED is gossiped
broadcast_withdrawal_execution(task_claims, msgs, self, withdrawal_id, tx_hash) ==
    [task_claims |-> RemoveClaim(task_claims, withdrawal_id),
     gossip |-> gossip_message(msgs, self, "EXECUTED", withdrawal_id, tx_hash)]

\* A handle_claim_message that drops the peer's claim
handle_claim_message_drops(task_claims, task_id, t) == task_claims

\* P2PNetwork::handle_claim_message
handle_claim_message(task_claims, task_id, t) ==
    InsertClaim(task_claims,
        [task_id |-> task_id, claimed_by |-> "peer", claimed_at |-> t,
         expires_at |-> t + ClaimLease])

\* P2PNetwork::handle_execution_message
handle_execution_message(task_claims, withdrawal_id, tx_hash) ==
    RemoveClaim(task_claims, withdrawal_id)

\* HashMap::clear in place of the retain of cleanup_expired_claims
cleanup_expired_claims_clear(task_claims, t) == << >>

\* P2PNetwork::cleanup_expired_claims: retain the claims with expires_at > now
cleanup_expired_claims(task_claims, t) ==
    [k \in {x \in DOMAIN task_claims : task_claims[x].expires_at > t} |-> task_claims[k]]

\* P2PNetwork::handle_incoming_message
handle_incoming_message(task_claims, message, t) ==
    IF message.kind = "CLAIM"
    THEN handle_claim_message(task_claims, message.task_id, t)
    ELSE IF message.kind = "EXECUTED"
    THEN handle_execution_message(task_claims, message.task_id, message.tx_hash)
    ELSE task_claims

\* RelayerDatabase::record_withdrawal_execution: INSERT on primary key
\* withdrawal_id; dbOk: the store accepts the write
record_withdrawal_execution(executions, withdrawal_id, dbOk) ==
    IF dbOk /\ withdrawal_id \notin executions
    THEN [ok |-> TRUE, executions |-> executions \cup {withdrawal_id}]
    ELSE [ok |-> FALSE, executions |-> executions]

\* How a run of execute_authorized_withdrawal can go: the chain submission is
\* rejected or times out, everything succeeds, or the store write at the end
\* fails
ExecOutcomes == {"tx_failed", "ok", "record_failed"}

\* Relayer::execute_authorized_withdrawal on relayer record rl
execute_authorized_withdrawal(rl, msgs, self, withdrawal_id, outcome) ==
    IF outcome = "tx_failed"
    THEN [rl |-> [rl EXCEPT !.failed = @ \cup {withdrawal_id}], gossip |-> msgs,
          ok |-> FALSE, err |-> "SubmitFailed"]
    ELSE
    LET b == broadcast_withdrawal_execution(rl.task_claims, msgs, self, withdrawal_id, "tx")
        rec == record_withdrawal_execution(rl.executions, withdrawal_id,
                                           outcome # "record_failed")
        rl2 == [rl EXCEPT !.task_claims = b.task_claims,
                          !.executions = rec.executions,
                          !.done = @ \cup {withdrawal_id}]
    IN  [rl |-> rl2, gossip |-> b.gossip, ok |-> rec.ok,
         err |-> IF rec.ok THEN "none" ELSE "RecordFailed"]

RlLast(op, self, id, ok, err) ==
    [op |-> op, id |-> id, ok |-> ok, err |-> err, rec |-> [relayer |-> self],
     reason |-> "none"]

\* The next position of process_authorized_withdrawals after an item is done
AfterItem(queue) == IF Tail(queue) = << >> THEN "idle" ELSE "loop"

\* Relayer::run, a tick: process_authorized_withdrawals queries the Coordinator
PollAuthorized(self) ==
    /\ relayers[self].pc = "idle"
    /\ \E authorized \in PollLists :
        /\ authorized # << >>
        /\ relayers' = [relayers EXCEPT ![self].queue = authorized, ![self].pc = "loop"]
    /\ last' = RlLast("poll", self, "none", TRUE, "none")
    /\ UNCHANGED <<coordAll, gateway, gossip>>

\* process_authorized_withdrawals, the is_task_claimed check on the next item
CheckClaimed(self) ==
    /\ relayers[self].pc = "loop"
    /\ LET id == Head(relayers[self].queue) IN
        IF is_task_claimed(relayers[self].task_claims, id, now)
        THEN /\ relayers' = [relayers EXCEPT ![self].queue = Tail(@),
                                             ![self].pc = AfterItem(relayers[self].queue)]
             /\ last' = RlLast("skip", self, id, TRUE, "none")
        ELSE /\ relayers' = [relayers EXCEPT ![self].pc = "claim"]
             /\ last' = RlLast("check", self, id, TRUE, "none")
    /\ UNCHANGED <<coordAll, gateway, gossip>>

\* process_authorized_withdrawals, broadcast_task_claim for the item
ClaimTask(self) ==
    /\ relayers[self].pc = "claim"
    /\ LET id == Head(relayers[self].queue)
           b == broadcast_task_claim(relayers[self].task_claims, gossip, self, id, now)
       IN  /\ relayers' = [relayers EXCEPT ![self].task_claims = b.task_claims,
                                           ![self].pc = "execute"]
           /\ gossip' = b.gossip
           /\ last' = RlLast("claim", self, id, TRUE, "none")
    /\ UNCHANGED <<coordAll, gateway>>

\* process_authorized_withdrawals, execute_authorized_withdrawal for the item
ExecuteTask(self) ==
    /\ relayers[self].pc = "execute"
    /\ \E outcome \in ExecOutcomes :
        LET id == Head(relayers[self].queue)
            r == execute_authorized_withdrawal(relayers[self], gossip, self, id, outcome)
        IN  /\ relayers' = [relayers EXCEPT
                               ![self] = [r.rl EXCEPT !.queue = Tail(@),
                                                      !.pc = AfterItem(relayers[self].queue)]]
            /\ gossip' = r.gossip
            /\ last' = RlLast("execute", self, id, r.ok, r.err)
    /\ UNCHANGED <<coordAll, gateway>>

\* The network hands a published message to its recipient (any message, any
\* number of times, in any order, or never)
DeliverGossip ==
    \E message \in gossip :
        /\ relayers' = [relayers EXCEPT
               ![message.to].task_claims = handle_incoming_message(@, message, now),
               ![message.to].done = IF message.kind = "EXECUTED"
                                    THEN @ \cup {message.task_id} ELSE @]
        /\ last' = RlLast("deliver", message.to, message.task_id, TRUE, message.kind)
        /\ UNCHANGED <<coordAll, gateway, gossip>>

\* A second passes
Tock ==
    /\ now < MaxTime
    /\ now' = now + 1
    /\ UNCHANGED <<pools, dbPools, deposits, withdrawals, nullifiers, notes, pc,
                   pendingD, pendingW, last, extVars>>

\* Relayer::new / P2PNetwork::new for both instances: no claim, an empty store
InitRelay ==
    /\ relayers = [r \in Relayers |->
                      [task_claims |-> << >>, executions |-> {}, pc |-> "idle",
                       queue |-> << >>, done |-> {}, failed |-> {}]]
    /\ gossip = {}
    /\ gateway = << >>
    /\ dbPools = << >>
    /\ pools = << >>
    /\ last = NoLast
    /\ CoordIdle

NextRelay ==
    \/ \E self \in Relayers : PollAuthorized(self)
    \/ \E self \in Relayers : CheckClaimed(self)
    \/ \E self \in Relayers : ClaimTask(self)
    \/ \E self \in Relayers : ExecuteTask(self)
    \/ DeliverGossip
    \/ Tock

SpecRelay == InitRelay /\ [][NextRelay]_vars

\* A call of the public P2PNetwork::cleanup_expired_claims, at any moment
CleanupExpiredClaims(self) ==
    LET kept == cleanup_expired_claims(relayers[self].task_claims, now) IN
    /\ relayers' = [relayers EXCEPT ![self].task_claims = kept]
    /\ last' = [RlLast("cleanup", self, "none", TRUE, "none") EXCEPT
                   !.reason = IF kept = relayers[self].task_claims THEN "kept"
                              ELSE "removed"]
    /\ UNCHANGED <<coordAll, gateway, gossip>>

NextCleanup ==
    \/ NextRelay
    \/ \E self \in Relayers : CleanupExpiredClaims(self)

\* The relayers of SpecRelay with cleanup_expired_claims called at any moment
SpecCleanup == InitRelay /\ [][NextCleanup]_vars

\* The last second in which the Coordinator is notified
LastCreation == 2

\* The Coordinator of Spec with the wall clock advancing, so that rows differ in created_at
SpecTick == Init /\ [][Next \/ (Tock /\ now < LastCreation)]_vars

\* execute_authorized_withdrawal up to the await inside
\* TransactionExecutor::execute_withdrawal: the transaction was sent to the
\* destination chain and its confirmation is awaited
SubmitWithdrawal(self) ==
    /\ relayers[self].pc = "execute"
    /\ relayers' = [relayers EXCEPT ![self].pc = "inflight"]
    /\ last' = RlLast("submit", self, Head(relayers[self].queue), TRUE, "none")
    /\ UNCHANGED <<coordAll, gateway, gossip>>

\* The awaited submission returns (confirmed, or rejected or timed out) and
\* execute_authorized_withdrawal runs to its end
CompleteWithdrawal(self) ==
    /\ relayers[self].pc = "inflight"
    /\ \E outcome \in ExecOutcomes :
        LET id == Head(relayers[self].queue)
            r == execute_authorized_withdrawal(relayers[self], gossip, self, id, outcome)
        IN  /\ relayers' = [relayers EXCEPT
                               ![self] = [r.rl EXCEPT !.queue = Tail(@),
                                                      !.pc = AfterItem(relayers[self].queue)]]
            /\ gossip' = r.gossip
            /\ last' = RlLast("execute", self, id, r.ok, r.err)
    /\ UNCHANGED <<coordAll, gateway>>

\* main: ctrl_c completes first in tokio::select!, the relayer.run() future is
\* dropped at the await it is suspended on and main returns
Shutdown(self) ==
    /\ relayers[self].pc # "stopped"
    /\ relayers' = [relayers EXCEPT ![self].pc = "stopped"]
    /\ last' = RlLast("shutdown", self, "none", TRUE, relayers[self].pc)
    /\ UNCHANGED <<coordAll, gateway, gossip>>

NextShutdown ==
    \/ \E self \in Relayers : PollAuthorized(self)
    \/ \E self \in Relayers : CheckClaimed(self)
    \/ \E self \in Relayers : ClaimTask(self)
    \/ \E self \in Relayers : SubmitWithdrawal(self)
    \/ \E self \in Relayers : CompleteWithdrawal(self)
    \/ \E self \in Relayers : Shutdown(self)

SpecShutdown == InitRelay /\ [][NextShutdown]_vars

-----------------------------------------------------------------------------
(* Configuration files: Config (coordinator) and RelayerConfig *)

MaxChains == 2

\* The strings a configuration field may hold: empty or not
Strings == {"", "set"}

\* An f64 read from the TOML file: a finite value num / den (den > 0), or NaN
Float(num, den) == [nan |-> FALSE, num |-> num, den |-> den]

NaN == [nan |-> TRUE, num |-> 0, den |-> 1]

\* The f64 values a threshold field is given
Floats == {Float(0 - 1, 2), Float(0, 1), Float(1, 2), Float(1, 1), Float(3, 2), NaN}

\* f64 <= and > (PartialOrd): false whenever an operand is NaN
partial_le(x, y) == ~x.nan /\ ~y.nan /\ x.num * y.den <= y.num * x.den

partial_gt(x, y) == ~x.nan /\ ~y.nan /\ x.num * y.den > y.num * x.den

\* The coordinator configurations: the fields Config::validate reads
CoordChains == [rpc_url : Strings, gateway_address : Strings]

Configs ==
    [zcash : [rpc_url : Strings, spending_key : Strings],
     chains : UNION {[1..n -> CoordChains] : n \in 0..MaxChains},
     liquidity : [rebalance_threshold : Floats, target_utilization : Floats]]

\* The first index of a list that a check of the loop rejects, 0 if none
FirstOf(S) == IF S = {} THEN 0 ELSE CHOOSE i \in S : \A j \in S : i <= j

\* Config::validate: the error of the first check that fails, "none" for Ok
Config_validate(cfg) ==
    LET zero == Float(0, 1)
        one == Float(1, 1)
        BadChain(c) == c.rpc_url = "" \/ c.gateway_address = ""
        bad == FirstOf({i \in 1..Len(cfg.chains) : BadChain(cfg.chains[i])})
    IN  IF cfg.zcash.rpc_url = "" THEN "ZcashRpcUrlEmpty"
        ELSE IF cfg.zcash.spending_key = "" THEN "SpendingKeyEmpty"
        ELSE IF Len(cfg.chains) = 0 THEN "NoChain"
        ELSE IF bad # 0
             THEN (IF cfg.chains[bad].rpc_url = "" THEN "ChainRpcUrlEmpty"
                   ELSE "GatewayAddressEmpty")
        ELSE IF \/ partial_le(cfg.liquidity.rebalance_threshold, zero)
                \/ partial_gt(cfg.liquidity.rebalance_threshold, one)
             THEN "RebalanceThreshold"
        ELSE IF \/ partial_le(cfg.liquidity.target_utilization, zero)
                \/ partial_gt(cfg.liquidity.target_utilization, one)
             THEN "TargetUtilization"
        ELSE "none"

\* The relayer configurations: the fields RelayerConfig::validate reads
RelayerChains == [rpc_url : Strings, private_key : Strings]

RelayerConfigs ==
    [coordinator_url : Strings,
     chains : UNION {[1..n -> RelayerChains] : n \in 0..MaxChains},
     staking : [minimum_stake : 0..1],
     p2p : [port : 0..1]]

\* RelayerConfig::validate
RelayerConfig_validate(cfg) ==
    LET BadChain(c) == c.rpc_url = "" \/ c.private_key = ""
        bad == FirstOf({i \in 1..Len(cfg.chains) : BadChain(cfg.chains[i])})
    IN  IF cfg.coordinator_url = "" THEN "CoordinatorUrlEmpty"
        ELSE IF Len(cfg.chains) = 0 THEN "NoChain"
        ELSE IF bad # 0
             THEN (IF cfg.chains[bad].rpc_url = "" THEN "ChainRpcUrlEmpty"
                   ELSE "PrivateKeyEmpty")
        ELSE IF cfg.staking.minimum_stake = 0 THEN "MinimumStake"
        ELSE IF cfg.p2p.port = 0 THEN "P2PPort"
        ELSE "none"

ConfigLast(op, cfg, err) ==
    [op |-> op, id |-> "config", ok |-> (err = "none"), err |-> err, rec |-> cfg,
     reason |-> "none"]

\* Config::load on a file that parses to cfg, once, when the process starts
LoadConfig ==
    \E cfg \in Configs :
        /\ last = NoLast
        /\ last' = ConfigLast("Config::load", cfg, Config_validate(cfg))
        /\ UNCHANGED <<pools, dbPools, coordVars, extVars>>

\* RelayerConfig::load on a file that parses to cfg, once, when the process starts
LoadRelayerConfig ==
    \E cfg \in RelayerConfigs :
        /\ last = NoLast
        /\ last' = ConfigLast("RelayerConfig::load", cfg, RelayerConfig_validate(cfg))
        /\ UNCHANGED <<pools, dbPools, coordVars, extVars>>

NextCfg == LoadConfig \/ LoadRelayerConfig

\* The processes before their configuration is loaded
SpecCfg == InitLiq /\ [][NextCfg]_vars

-----------------------------------------------------------------------------
(* Properties *)

\* process_deposits hands the deposit d to handle_deposit in this step
DepositStep(d) ==
    /\ pc = "deposits"
    /\ pendingD # << >>
    /\ pendingD' = Tail(pendingD)
    /\ Head(pendingD).deposit_id = d

\* process_withdrawals hands the withdrawal w to handle_withdrawal in this step
WithdrawalStep(w) ==
    /\ pc = "withdrawals"
    /\ pendingW # << >>
    /\ pendingW' = Tail(pendingW)
    /\ Head(pendingW).withdrawal_id = w

\* The pool handle_deposit addresses for the stored deposit d
DepositPoolKey(d) ==
    LET token_info == get_token_for_chain(token_registry, deposits[d].target_chain_id,
                                          deposits[d].token)
    IN  <<deposits[d].target_chain_id, token_info.address>>

\* handle_deposit's preconditions on the deposit d: the token resolves and the
\* destination pool has the amount available
DepositReady(d) ==
    /\ get_token_for_chain(token_registry, deposits[d].target_chain_id,
                           deposits[d].token).ok
    /\ DepositPoolKey(d) \in DOMAIN pools
    /\ pools[DepositPoolKey(d)].available >= deposits[d].amount

\* This step moves the amount of deposit d from available to locked in its
\* destination pool, in memory and in the liquidity_pools row
DepositLocked(d) ==
    LET key == DepositPoolKey(d)
        a == deposits[d].amount
    IN  /\ pools'[key].available = pools[key].available - a
        /\ pools'[key].locked = pools[key].locked + a
        /\ dbPools'[key].available = pools'[key].available
        /\ dbPools'[key].locked = pools'[key].locked

\* The withdrawals that are authorized and carry the nullifier
AuthorizedWith(nullifier) ==
    {w \in DOMAIN withdrawals :
        withdrawals[w].authorized /\ withdrawals[w].nullifier = nullifier}

\* At most one withdrawal per nullifier is authorized, an authorized
\* withdrawal's nullifier is spent, and each nullifier was written once
NullifierExclusive ==
    /\ \A a, b \in DOMAIN withdrawals :
        (a # b /\ withdrawals[a].authorized /\ withdrawals[b].authorized)
            => withdrawals[a].nullifier # withdrawals[b].nullifier
    /\ \A w \in DOMAIN withdrawals :
        withdrawals[w].authorized => is_nullifier_spent(nullifiers, withdrawals[w].nullifier)
    /\ \A n \in DOMAIN nullifiers : nullifiers[n] = 1

\* A handler run on a withdrawal whose nullifier is already spent does not
\* authorize it, and unless verification or the delete fails it removes the
\* withdrawal with the given reason
SpentIsDiscarded(reason) ==
    \A w \in DOMAIN withdrawals :
        (WithdrawalStep(w) /\ is_nullifier_spent(nullifiers, Head(pendingW).nullifier))
            => /\ nullifiers' = nullifiers
               /\ w \in DOMAIN withdrawals' => ~withdrawals'[w].authorized
               /\ last'.err \notin {"VerifyFailed", "DeleteFailed"}
                    => (w \notin DOMAIN withdrawals' /\ last'.reason = reason)

C2_NoDoubleAuthorization ==
    [][(last.op = "withdrawal" /\ last.err = "none" /\ last'.op = "withdrawal_again")
          => /\ withdrawals' = withdrawals
             /\ nullifiers' = nullifiers
             /\ pools' = pools
             /\ dbPools' = dbPools]_vars

\* available and locked are never negative
BalancesNonNegative ==
    \A k \in DOMAIN pools : pools[k].available >= 0 /\ pools[k].locked >= 0

\* available + locked of a pool changes only in a successful add or remove on it
SumChangesOnlyOnAddRemove ==
    \A k \in PoolKeys :
        Total(pools', k) # Total(pools, k)
            => (last'.op \in {"add", "remove"} /\ last'.ok /\ last'.id = k)

\* C3: under any sequence of add / remove / lock / release calls the balances
\* stay non-negative and available + locked changes only across a successful
\* add or remove; lock and release leave the sum unchanged.
C3_LiquidityConservation == []BalancesNonNegative /\ [][SumChangesOnlyOnAddRemove]_vars

\* C4: however often a deposit_id is notified, its record stays the one stored
\* record, a processed record is never reset or altered, and the deposit gets
\* one processing outcome: one note.
C4_IdempotentDepositNotification ==
    /\ [](\A d \in DepositIds : notes[d] <= 1)
    /\ [][\A d \in DOMAIN deposits :
            /\ d \in DOMAIN deposits'
            /\ deposits[d].processed => deposits'[d] = deposits[d]]_vars

\* C5: a withdrawal_id whose handler run ended in authorization or in discard is
\* not handed to the handler again, whatever notifications follow.
C5_IdempotentWithdrawalNotification ==
    [][\A w \in WithdrawalIds :
          ~ /\ last.op = "withdrawal"
            /\ last.id = w
            /\ last.err \in {"none", "Discarded"}
            /\ pc = "withdrawals"
            /\ pendingW # << >>
            /\ pendingW' = Tail(pendingW)
            /\ Head(pendingW).withdrawal_id = w]_vars

\* C6: after every liquidity operation, failed durable writes included, the
\* in-memory pool and the liquidity_pools row agree on available and locked.
C6_AtomicPersistence ==
    \A k \in DOMAIN pools :
        /\ k \in DOMAIN dbPools
        /\ dbPools[k].available = pools[k].available
        /\ dbPools[k].locked = pools[k].locked

\* C7: over all ticks at most one shielded note is created per deposit_id.
C7_NoDuplicateNote == \A d \in DepositIds : notes[d] < 2

\* C8: a stored deposit stays stored, a processed deposit is never changed
\* again, processed turns true only in the handler run that created the
\* deposit's note and locked its amount, and a run that fails at the liquidity
\* check, the note or the lock leaves the deposit unprocessed.
C8_DepositLifecycle ==
    [][\A d \in DOMAIN deposits :
          /\ d \in DOMAIN deposits'
          /\ deposits[d].processed => deposits'[d] = deposits[d]
          /\ (~deposits[d].processed /\ deposits'[d].processed)
                => /\ DepositStep(d)
                   /\ notes'[d] = notes[d] + 1
                   /\ deposits'[d].note_commitment = <<"cm", d, notes'[d]>>
                   /\ DepositLocked(d)
          /\ (DepositStep(d) /\ last'.err \in {"TokenNotFound", "PoolNotFound",
                                               "Insufficient", "NoteFailed",
                                               "LockFailed"})
                => ~deposits'[d].processed]_vars

\* A deposit is processed after an earlier run had created a note for it and
\* failed
C8_Witness ==
    \E d \in DOMAIN deposits :
        /\ deposits[d].processed
        /\ notes[d] = 2
        /\ last.op = "deposit"
        /\ last.id = d
        /\ last.ok

\* The handler run on deposit d ends with the deposit processed, commitment
\* and txid set, and the amount moved from available to locked
DepositSettled(d) ==
    /\ deposits'[d].processed
    /\ deposits'[d].note_commitment # NULL
    /\ deposits'[d].zcash_txid # NULL
    /\ DepositLocked(d)

VerifiedInvalid(w) ==
    /\ WithdrawalStep(w)
    /\ last'.err # "VerifyFailed"
    /\ ~verify_withdrawal_proof(nullifiers, Head(pendingW).nullifier,
                                Head(pendingW).zcash_proof)

\* Nothing but the withdrawal's own row may have changed, and the row is not
\* authorized
NothingAuthorized(w) ==
    /\ pools' = pools
    /\ dbPools' = dbPools
    /\ nullifiers' = nullifiers
    /\ \A v \in DOMAIN withdrawals : v # w => (v \in DOMAIN withdrawals'
                                               /\ withdrawals'[v] = withdrawals[v])
    /\ w \in DOMAIN withdrawals'
          => (withdrawals'[w] = withdrawals[w] /\ ~withdrawals'[w].authorized)

GwTransfers(withdrawal_id) ==
    Cardinality({i \in 1..Len(gateway.transfers) : gateway.transfers[i] = withdrawal_id})

\* How often the gateway issued a transfer for a request carrying the nullifier
GwTransfersOf(nullifier) ==
    Cardinality({i \in 1..Len(gateway.transfers) :
        gateway.withdrawal_requests[gateway.transfers[i]].nullifier = nullifier})

\* C11: a gateway releases funds at most once per withdrawal_id and at most
\* once per nullifier, and an execute_withdrawal for a request that is already
\* executed or whose nullifier is already used is rejected and changes nothing
\* in the gateway's storage.
C11_GatewayAtMostOnce ==
    /\ [](/\ \A id \in DOMAIN gateway.withdrawal_requests : GwTransfers(id) <= 1
          /\ \A n \in GwNullifiers : GwTransfersOf(n) <= 1)
    /\ [][\A id \in DOMAIN gateway.withdrawal_requests :
            (/\ last'.op = "execute_withdrawal"
             /\ last'.id = id
             /\ \/ gateway.withdrawal_requests[id].executed
                \/ gateway.withdrawal_requests[id].nullifier \in gateway.nullifiers)
                => (/\ ~last'.ok
                    /\ last'.err \in {"Paused", "AlreadyExecuted", "NullifierUsed"}
                    /\ gateway' = gateway)]_vars

\* An execute_withdrawal was just rejected because another request with the same
\* nullifier had been executed
C11_Witness ==
    /\ last.op = "execute_withdrawal"
    /\ last.err = "NullifierUsed"
    /\ \E id \in DOMAIN gateway.withdrawal_requests :
        /\ id # last.id
        /\ gateway.withdrawal_requests[id].executed
        /\ gateway.withdrawal_requests[id].nullifier
              = gateway.withdrawal_requests[last.id].nullifier
        /\ GwTransfers(id) = 1

\* C12: the message the Coordinator hashed for an authorized withdrawal is
\* byte for byte the message the NEAR gateway and the Osmosis gateway rebuild
\* from the same withdrawal_id, recipient, token, amount and nullifier.
C12_AuthorizationMessageContract ==
    \A w \in DOMAIN withdrawals :
        withdrawals[w].authorized
            => /\ withdrawals[w].auth_signature
                    = near_message_hash(w, withdrawals[w])
               /\ withdrawals[w].auth_signature
                    = osmosis_message_hash(w, withdrawals[w].recipient,
                                           get_token_for_chain(token_registry,
                                               withdrawals[w].target_chain_id,
                                               withdrawals[w].token).address,
                                           withdrawals[w].amount,
                                           withdrawals[w].nullifier)

\* Relayer self runs the is_task_claimed check of its poll loop on id in this step
CheckStep(self, id) ==
    /\ relayers[self].pc = "loop"
    /\ Head(relayers[self].queue) = id
    /\ \/ relayers'[self].pc # "loop"
       \/ relayers'[self].queue # relayers[self].queue

\* The check made the loop go on to the next item: nothing claimed, nothing sent
Skipped(self) ==
    /\ relayers'[self].queue = Tail(relayers[self].queue)
    /\ relayers'[self].pc \in {"idle", "loop"}
    /\ relayers'[self].task_claims = relayers[self].task_claims
    /\ gossip' = gossip

\* Relayer self runs execute_authorized_withdrawal on id in this step
SubmitStep(self, id) ==
    /\ relayers[self].pc = "execute"
    /\ Head(relayers[self].queue) = id
    /\ relayers'[self].pc # "execute"

\* Relayer self holds an unexpired claim for id that it learned from a peer
HoldsPeerClaim(self, id) ==
    /\ id \in DOMAIN relayers[self].task_claims
    /\ relayers[self].task_claims[id].claimed_by = "peer"
    /\ relayers[self].task_claims[id].expires_at > now

\* C13: once a relayer has handled a peer's CLAIM for a withdrawal, its
\* is_task_claimed returns true for it for as long as the claim is held and
\* unexpired, and a check of its poll loop made in that time skips the
\* withdrawal: nothing is claimed, gossiped or submitted.
C13_RelayerDedupe ==
    /\ [](\A self \in Relayers, id \in TaskIds :
            HoldsPeerClaim(self, id)
                => is_task_claimed(relayers[self].task_claims, id, now))
    /\ [][\A self \in Relayers, id \in TaskIds :
            /\ (/\ now' = now
                /\ last'.op = "deliver"
                /\ last'.err = "CLAIM"
                /\ last'.rec.relayer = self
                /\ last'.id = id)
                  => is_task_claimed(relayers'[self].task_claims, id, now')
            /\ (CheckStep(self, id) /\ HoldsPeerClaim(self, id)) => Skipped(self)]_vars

\* A relayer has just skipped a withdrawal for which it holds the claim learned
\* from the peer, while the peer holds its own claim
C13_Witness ==
    /\ last.op = "skip"
    /\ HoldsPeerClaim(last.rec.relayer, last.id)
    /\ \E peer \in Relayers \ {last.rec.relayer} :
        /\ last.id \in DOMAIN relayers[peer].task_claims
        /\ relayers[peer].task_claims[last.id].claimed_by = peer

\* C14: a relayer never runs the submission for a withdrawal it has executed
\* itself or for which it has received a peer's EXECUTED message.
C14_NoRetryAfterExecution ==
    [][\A self \in Relayers, id \in TaskIds :
          SubmitStep(self, id) => id \notin relayers[self].done]_vars

C16_AuthorizedIffSigned ==
    /\ \A w \in DOMAIN withdrawals :
        withdrawals[w].authorized <=> (withdrawals[w].auth_signature # NULL)
    /\ \A answer \in authorized_withdrawals_handler(withdrawals) :
        /\ {answer[i].withdrawal_id : i \in 1..Len(answer)}
              = {w \in DOMAIN withdrawals : withdrawals[w].authorized}
        /\ Len(answer) = Cardinality({w \in DOMAIN withdrawals : withdrawals[w].authorized})
        /\ \A i \in 1..Len(answer) :
              /\ answer[i].authorization_signature # NULL
              /\ answer[i].authorization_signature
                    = withdrawals[answer[i].withdrawal_id].auth_signature

\* One withdrawal is authorized and listed while another one is stored pending
C16_Witness ==
    /\ \E w \in DOMAIN withdrawals : withdrawals[w].authorized
    /\ \E w \in DOMAIN withdrawals : ~withdrawals[w].authorized
    /\ \A answer \in authorized_withdrawals_handler(withdrawals) : Len(answer) = 1

\* C17: GET /deposits/{id}/status answers 404 exactly for an id that was never
\* stored (deposits are never deleted), and for a stored deposit it returns the
\* row's processed flag, txid and commitment, so that check_deposit_status is
\* true for a processed deposit.
C17_DepositStatus ==
    \A d \in DepositIds :
        LET response == deposit_status_handler(deposits, d) IN
        /\ (response.status = 404) <=> (d \notin DOMAIN deposits)
        /\ d \in DOMAIN deposits
              => /\ response.status = 200
                 /\ response.body.processed = deposits[d].processed
                 /\ response.body.zcash_txid = deposits[d].zcash_txid
                 /\ response.body.note_commitment = deposits[d].note_commitment
                 /\ check_deposit_status(response) = deposits[d].processed

\* C18: in deposit and withdrawal processing a pool's locked balance goes up
\* only in a step that turns a deposit targeting the pool processed, goes down
\* only in a step that authorizes a withdrawal on the pool, and available +
\* locked never changes.
C18_ProcessingKeepsTotal ==
    [][\A k \in DOMAIN pools :
          /\ Total(pools', k) = Total(pools, k)
          /\ pools'[k].locked > pools[k].locked
                => \E d \in DOMAIN deposits :
                      /\ DepositStep(d)
                      /\ DepositPoolKey(d) = k
                      /\ ~deposits[d].processed
                      /\ deposits'[d].processed
          /\ pools'[k].locked < pools[k].locked
                => \E w \in DOMAIN withdrawals :
                      /\ WithdrawalStep(w)
                      /\ withdrawals[w].target_chain_id = k[1]
                      /\ ~withdrawals[w].authorized
                      /\ w \in DOMAIN withdrawals'
                      /\ withdrawals'[w].authorized]_vars

\* ensure, lock and remove with more than the pool has available fail with the
\* insufficient-liquidity error and leave memory and the durable row alone
InsufficientRejected ==
    \A k \in DOMAIN pools, amount \in Amounts, dbOk \in BOOLEAN :
        amount > pools[k].available
            => /\ ensure_liquidity(pools, k, amount) = "Insufficient"
               /\ lock_liquidity(pools, dbPools, k, amount, dbOk)
                    = LmRes(pools, dbPools, "Insufficient")
               /\ remove_liquidity(pools, dbPools, k, amount, dbOk)
                    = LmRes(pools, dbPools, "Insufficient")

C20_Release ==
    \A k \in DOMAIN pools, amount \in Amounts :
        LET r == release_liquidity(pools, dbPools, k, amount, TRUE) IN
        /\ r.ok
        /\ r.pools[k].locked >= 0
        /\ r.pools[k].available >= 0
        /\ amount <= pools[k].locked
              => /\ r.pools[k].locked = pools[k].locked - amount
                 /\ r.pools[k].available = pools[k].available + amount
        /\ amount > pools[k].locked
              => /\ pools[k].locked - r.pools[k].locked <= pools[k].locked
                 /\ r.pools[k].available + r.pools[k].locked
                      = pools[k].available + pools[k].locked

\* The (chain_id, lowercased address) pairs that token definition i of cfg lists
AliasesOf(cfg, i) ==
    {<<cfg[i].representations[j].chain_id,
       to_lowercase(cfg[i].representations[j].address)>> :
        j \in 1..Len(cfg[i].representations)}

\* Two definitions with different canonical ids list the same alias
DuplicateAlias(cfg) ==
    \E i, j \in 1..Len(cfg) :
        /\ compute_canonical_id(cfg[i].symbol) # compute_canonical_id(cfg[j].symbol)
        /\ AliasesOf(cfg, i) \cap AliasesOf(cfg, j) # {}

\* Every reverse-lookup entry leads to a token that lists the entry's chain and
\* address
ReverseLookupSound(reg) ==
    \A k \in DOMAIN reg.reverse_lookup :
        /\ reg.reverse_lookup[k] \in DOMAIN reg.mappings
        /\ \E i \in 1..Len(reg.mappings[reg.reverse_lookup[k]]) :
              LET t == reg.mappings[reg.reverse_lookup[k]][i] IN
              /\ t.chain_id = k[1]
              /\ to_lowercase(t.address) = k[2]

\* C21: load fails on a configuration that gives one (chain_id, lowercased
\* address) to two different canonical ids, and in every loaded registry each
\* reverse-lookup entry yields a token that lists that chain and address.
C21_LoadRejectsDuplicateAlias ==
    /\ DuplicateAlias(registry.tokens) => ~registry.ok
    /\ registry.ok => ReverseLookupSound(registry.reg)

\* The (chain_id, address) pairs the configuration registers
Registered(cfg) ==
    UNION {{<<cfg[i].representations[j].chain_id, cfg[i].representations[j].address>> :
                j \in 1..Len(cfg[i].representations)} : i \in 1..Len(cfg)}

\* (chain_id, address) is registered in some letter case
RegisteredAnyCase(cfg, chain_id, address) ==
    \E k \in Registered(cfg) :
        k[1] = chain_id /\ to_lowercase(k[2]) = to_lowercase(address)

\* C22: on a loaded registry get_token_for_chain succeeds for every registered
\* (chain_id, address) in any letter case and fails with not-found for every
\* other pair, and a lookup leaves the registry as it was.
C22_LookupTotalOnRegistered ==
    /\ registry.ok =>
          \A chain_id \in LookupChains, address \in LookupAddresses :
              get_token_for_chain(registry.reg, chain_id, address).ok
                  <=> RegisteredAnyCase(registry.tokens, chain_id, address)
    /\ [][registry' = registry]_vars

\* locked / (available + locked) > threshold over the rationals, false for an
\* empty pool
UtilizationAbove(pool, threshold) ==
    /\ pool.available + pool.locked # 0
    /\ pool.locked * threshold[2] > threshold[1] * (pool.available + pool.locked)

\* C23: needs_rebalancing(threshold) returns true exactly when locked /
\* (available + locked) > threshold and false for an empty pool, and
\* check_rebalancing_needed returns exactly the pools for which that holds.
C23_NeedsRebalancing ==
    /\ last.op = "needs_rebalancing"
          => /\ last.ok
             /\ last.rec = UtilizationAbove(pools[last.id[1]], last.id[2])
    /\ last.op = "check_rebalancing_needed"
          => /\ last.ok
             /\ last.rec = {k \in DOMAIN pools : UtilizationAbove(pools[k], last.id[1])}

\* n / d truncated toward zero, d > 0
TruncDiv(n, d) == IF n < 0 THEN 0 - ((0 - n) \div d) ELSE n \div d

\* C24: calculate_rebalance_amount(target_utilization) returns
\* target_utilization * (available + locked) - locked, truncated toward zero.
C24_RebalanceAmount ==
    last.op = "calculate_rebalance_amount"
        => LET pool == pools[last.id[1]]
               t == last.id[2]
           IN  /\ last.ok
               /\ last.rec = TruncDiv(t[1] * (pool.available + pool.locked)
                                         - pool.locked * t[2], t[2])

\* Relayer self runs broadcast_task_claim on id in this step
ClaimStep(self, id) ==
    /\ relayers[self].pc = "claim"
    /\ Head(relayers[self].queue) = id
    /\ relayers'[self].pc # "claim"

\* The local map of self holds a claim for id that has not expired
HoldsLiveClaim(self, id) ==
    /\ id \in DOMAIN relayers[self].task_claims
    /\ relayers[self].task_claims[id].expires_at > now

\* C25: broadcast_task_claim stores a lease that expires ClaimLease after the
\* claim time (and gossips CLAIM), a peer's CLAIM is stored with the same
\* lease, and is_task_claimed is true exactly while the local map holds a
\* claim, own or learned, whose expires_at is later than the current time; the
\* poll loop skips an item exactly in that case.
C25_ClaimLease ==
    /\ [](\A self \in Relayers, id \in TaskIds :
            is_task_claimed(relayers[self].task_claims, id, now)
                <=> HoldsLiveClaim(self, id))
    /\ [][\A self \in Relayers, id \in TaskIds :
            /\ ClaimStep(self, id)
                  => /\ id \in DOMAIN relayers'[self].task_claims
                     /\ relayers'[self].task_claims[id]
                          = [task_id |-> id, claimed_by |-> self, claimed_at |-> now,
                             expires_at |-> now + ClaimLease]
                     /\ \A peer \in Relayers \ {self} :
                          \E m \in gossip' :
                              m.to = peer /\ m.kind = "CLAIM" /\ m.task_id = id
            /\ (/\ now' = now
                /\ relayers'[self].task_claims # relayers[self].task_claims
                /\ last'.op = "deliver"
                /\ last'.err = "CLAIM"
                /\ last'.rec.relayer = self
                /\ last'.id = id)
                  => relayers'[self].task_claims[id].expires_at = now + ClaimLease
            /\ CheckStep(self, id) => (Skipped(self) <=> HoldsLiveClaim(self, id))]_vars

\* A relayer's poll loop has just skipped a withdrawal because of the lease it
\* took itself, and a peer holds the claim it learned from the CLAIM message
C25_Witness ==
    /\ last.op = "skip"
    /\ HoldsLiveClaim(last.rec.relayer, last.id)
    /\ relayers[last.rec.relayer].task_claims[last.id].claimed_by = last.rec.relayer
    /\ relayers[last.rec.relayer].task_claims[last.id].expires_at
          = relayers[last.rec.relayer].task_claims[last.id].claimed_at + ClaimLease
    /\ \E peer \in Relayers \ {last.rec.relayer} :
          /\ HoldsLiveClaim(peer, last.id)
          /\ relayers[peer].task_claims[last.id].claimed_by = "peer"

\* C26: whatever a handler returns for one pending deposit or withdrawal, the
\* loop goes on to the next row of the same tick; a phase of the tick is left
\* only when all its rows were handed to their handler; and the tick loop keeps
\* turning, so every tick that begins also ends and another one follows.
C26_FailureIsolation ==
    /\ [][/\ (pc = "deposits" /\ pendingD # << >> /\ pendingD' # pendingD)
                => (pendingD' = Tail(pendingD) /\ pc' = "deposits")
          /\ (pc = "withdrawals" /\ pendingW # << >> /\ pendingW' # pendingW)
                => (pendingW' = Tail(pendingW) /\ pc' = "withdrawals")
          /\ pc' # pc => \/ pc = "idle" /\ pc' = "deposits"
                         \/ pc = "deposits" /\ pc' = "withdrawals" /\ pendingD = << >>
                         \/ pc = "withdrawals" /\ pc' = "idle" /\ pendingW = << >>]_vars
    /\ []<>(pc = "idle")
    /\ []<>(pc = "deposits")

\* handle_deposit has just failed on a token that is not registered, and a row
\* of the same tick is still to be handled
C26_Witness ==
    /\ last.op = "deposit"
    /\ last.err = "TokenNotFound"
    /\ pendingD # << >>

\* C27: after the shutdown signal a relayer starts no poll tick and no
\* submission, and a submission that is in flight when the signal arrives has
\* its outcome recorded in the relayer store.
C27_GracefulShutdown ==
    [][\A self \in Relayers :
          /\ relayers[self].pc = "stopped" => relayers'[self] = relayers[self]
          /\ (relayers[self].pc = "inflight" /\ relayers'[self].pc = "stopped")
                => Head(relayers[self].queue) \in relayers'[self].executions]_vars

\* The (available, locked) pair of the gated pool in a pool table
PairOf(ps) == <<ps[GateKey].available, ps[GateKey].locked>>

\* The tasks that are between taking the write gate for a mutating operation
\* and its return
Mutating == {t \in Tasks : rwlock.task[t].pc \in {"w1", "w2", "w3", "w4"}}

\* The pool table a finished operation of task t must have left
PostOf(t) ==
    LET task == rwlock.task[t] IN
    CASE task.op = "lock" ->
            lock_liquidity(task.pre, dbPools, GateKey, task.amount, TRUE).pools
      [] task.op = "release" ->
            release_liquidity(task.pre, dbPools, GateKey, task.amount, TRUE).pools
      [] task.op = "add" ->
            add_liquidity(task.pre, dbPools, GateKey, task.amount, TRUE).pools
      [] task.op = "remove" ->
            remove_liquidity(task.pre, dbPools, GateKey, task.amount, TRUE).pools

\* C28: a reader of the pool table sees the (available, locked) pair some
\* operation left complete, the pre- or the post-operation one, never a pair
\* from between two assignments, and at most one mutation is in progress.
C28_ReadersSeeWholeSnapshots ==
    /\ Cardinality(Mutating) <= 1
    /\ \A t \in Mutating :
          /\ rwlock.writer = t
          /\ rwlock.readers = {}
          /\ rwlock.task[t].pre = rwlock.committed
          /\ rwlock.task[t].pc = "w4" => pools = PostOf(t)
    /\ \A t \in ReaderTasks :
          /\ rwlock.task[t].pc \in {"r1", "r2", "r3"}
                => (t \in rwlock.readers /\ pools = rwlock.committed)
          /\ rwlock.task[t].pc = "r3"
                => <<rwlock.task[t].seen_available, rwlock.task[t].seen_locked>>
                      = PairOf(rwlock.committed)

\* Two readers are inside the manager, one of them through with both reads,
\* after a lock_liquidity that moved funds
C28_Witness ==
    /\ rwlock.task["rpc"].pc = "r3"
    /\ rwlock.task["tick"].pc \in {"r1", "r2"}
    /\ last.op = "lock"
    /\ last.ok
    /\ rwlock.task["rpc"].seen_locked > 0

\* A threshold lies in (0, 1]
InUnitInterval(x) == ~x.nan /\ 0 < x.num /\ x.num <= x.den

\* Some chain of the list has the field empty
SomeChainEmpty(chains, field) == \E i \in 1..Len(chains) : chains[i][field] = ""

\* C29: Config::load accepts a configuration only if the Zcash RPC URL and the
\* spending key are non-empty, there is at least one chain, every chain has a
\* non-empty RPC URL and gateway address, and rebalance_threshold and
\* target_utilization lie in (0, 1]; RelayerConfig::load rejects an empty
\* coordinator URL, an empty chain list, and a chain with an empty RPC URL or
\* private key.
C29_ConfigValidation ==
    /\ (last.op = "Config::load" /\ last.ok) =>
          /\ last.rec.zcash.rpc_url # ""
          /\ last.rec.zcash.spending_key # ""
          /\ Len(last.rec.chains) >= 1
          /\ ~SomeChainEmpty(last.rec.chains, "rpc_url")
          /\ ~SomeChainEmpty(last.rec.chains, "gateway_address")
          /\ InUnitInterval(last.rec.liquidity.rebalance_threshold)
          /\ InUnitInterval(last.rec.liquidity.target_utilization)
    /\ (/\ last.op = "RelayerConfig::load"
        /\ \/ last.rec.coordinator_url = ""
           \/ Len(last.rec.chains) = 0
           \/ SomeChainEmpty(last.rec.chains, "rpc_url")
           \/ SomeChainEmpty(last.rec.chains, "private_key"))
          => ~last.ok

\* Every authorized withdrawal has its nullifier marked spent
AuthorizedIsSpent ==
    \A w \in DOMAIN withdrawals :
        withdrawals[w].authorized => is_nullifier_spent(nullifiers, withdrawals[w].nullifier)

\* The withdrawal w is authorized by this step
AuthorizedNow(w) ==
    /\ w \in DOMAIN withdrawals'
    /\ withdrawals'[w].authorized
    /\ w \in DOMAIN withdrawals
    /\ ~withdrawals[w].authorized

\* What holds of the order of handle_withdrawal's steps whatever fails: the
\* nullifier is marked only for a verified withdrawal, the authorization is
\* persisted only with the nullifier marked, liquidity moves only with the
\* authorization persisted
OrderOfSteps(w) ==
    LET withdrawal == Head(pendingW) IN
    /\ nullifiers' # nullifiers
          => /\ ~is_nullifier_spent(nullifiers, withdrawal.nullifier)
             /\ withdrawal.zcash_proof = "valid"
             /\ nullifiers' = mark_nullifier_spent(nullifiers, withdrawal.nullifier)
    /\ withdrawals' # withdrawals /\ w \in DOMAIN withdrawals'
          => /\ AuthorizedNow(w)
             /\ nullifiers' # nullifiers
             /\ withdrawals'[w].auth_signature # NULL
    /\ (pools' # pools \/ dbPools' # dbPools) => AuthorizedNow(w)

Ascending(list) ==
    \A i, j \in DOMAIN list : i < j => list[i].created_at <= list[j].created_at

\* The step changes or removes the stored deposit d / withdrawal w
DepositTouched(d) ==
    /\ d \in DOMAIN deposits
    /\ d \notin DOMAIN deposits' \/ deposits'[d] # deposits[d]

WithdrawalTouched(w) ==
    /\ w \in DOMAIN withdrawals
    /\ w \notin DOMAIN withdrawals' \/ withdrawals'[w] # withdrawals[w]

\* C31: within a tick the pending deposits are handled one at a time in
\* ascending created_at, then the pending withdrawals one at a time in
\* ascending created_at; the withdrawals of a tick start when its deposits are
\* through, and a tick starts only when the one before is over.
C31_TickScheduling ==
    /\ [](/\ Ascending(pendingD)
          /\ Ascending(pendingW)
          /\ pc \in {"idle", "deposits", "withdrawals"}
          /\ pc # "deposits" => pendingD = << >>
          /\ pc # "withdrawals" => pendingW = << >>)
    /\ [][/\ (\E d \in DepositIds : DepositTouched(d))
                => /\ pc = "deposits" /\ pendingD # << >> /\ pendingD' = Tail(pendingD)
                   /\ \A d \in DepositIds :
                         DepositTouched(d) => d = Head(pendingD).deposit_id
          /\ (\E w \in WithdrawalIds : WithdrawalTouched(w))
                => /\ pc = "withdrawals" /\ pendingW # << >> /\ pendingW' = Tail(pendingW)
                   /\ \A w \in WithdrawalIds :
                         WithdrawalTouched(w) => w = Head(pendingW).withdrawal_id
          /\ (pendingD' # pendingD /\ pendingD # << >>) => pendingD' = Tail(pendingD)
          /\ (pendingW' # pendingW /\ pendingW # << >>) => pendingW' = Tail(pendingW)
          /\ (pendingD' # pendingD /\ pendingD = << >>)
                => (pc = "idle" /\ pc' = "deposits"
                    /\ pendingD' \in get_pending_deposits(deposits))
          /\ (pendingW' # pendingW /\ pendingW = << >>)
                => (pc = "deposits" /\ pc' = "withdrawals"
                    /\ pendingW' \in get_pending_withdrawals(withdrawals))]_vars

\* A tick is handling the older of two deposits that were notified at
\* different times, the younger one waiting behind it
C31_Witness ==
    /\ pc = "deposits"
    /\ Len(pendingD) = 2
    /\ pendingD[1].created_at < pendingD[2].created_at

\* The stored deposit d is pending / processed
PendingDeposit(d) == d \in DOMAIN deposits /\ ~deposits[d].processed

ProcessedDeposit(d) == d \in DOMAIN deposits /\ deposits[d].processed

\* handle_deposit would stop at its first step on the stored deposit d: the
\* token does not resolve in the loaded registry, or the destination pool is
\* missing or has less available than the amount
DepositBlocked(d) ==
    LET token_info == get_token_for_chain(registry.reg, deposits[d].target_chain_id,
                                          deposits[d].token)
        key == <<deposits[d].target_chain_id, token_info.address>>
    IN  \/ ~token_info.ok
        \/ key \notin DOMAIN pools
        \/ pools[key].available < deposits[d].amount

\* process_deposits is about to hand the deposit d to handle_deposit
HandlingDeposit(d) ==
    pc = "deposits" /\ pendingD # << >> /\ Head(pendingD).deposit_id = d

\* A blocked deposit stays as it is, and every tick reads every pending deposit
BlockedStaysPending ==
    [][/\ \A d \in DepositIds :
            (DepositStep(d) /\ DepositBlocked(d))
               => /\ deposits' = deposits
                  /\ notes' = notes
                  /\ pools' = pools
                  /\ dbPools' = dbPools
                  /\ last'.err \in {"TokenNotFound", "PoolNotFound", "Insufficient"}
       /\ (pc = "idle" /\ pc' = "deposits")
             => \A d \in DepositIds :
                   PendingDeposit(d) => \E i \in DOMAIN pendingD' : pendingD'[i].deposit_id = d]_vars

\* C32: a blocked deposit stays pending untouched and is retried on every
\* tick; and, store and settlement failures being transient, a deposit that a
\* pass found with its token resolving, its liquidity sufficient and its note
\* created is eventually processed.
C32_BlockedDepositRetried ==
    /\ BlockedStaysPending
    /\ \A d \in DepositIds :
          PendingDeposit(d) ~> (ProcessedDeposit(d) \/ HandlingDeposit(d))
    /\ <>[](last.err \notin {"NoteFailed", "LockFailed", "MarkFailed"})
          => \A d \in DepositIds :
                (/\ last.op = "deposit"
                 /\ last.id = d
                 /\ last.err \in {"LockFailed", "MarkFailed"}) ~> ProcessedDeposit(d)

\* C33: trigger_rebalance leaves every pool's available and locked balance as
\* it was; when |target_utilization * total - locked| exceeds the maximum
\* rebalance amount it changes nothing at all, otherwise it sets the pool's
\* last_rebalance to the time of the call and changes nothing else.
C33_TriggerRebalance ==
    [][(last'.op = "trigger_rebalance" /\ last' # last) =>
          LET key == last'.id[1]
              t == last'.id[2]
              cap == last'.id[4]
              pool == pools[key]
              delta == t[1] * (pool.available + pool.locked) - pool.locked * t[2]
              exceeds == IF delta < 0 THEN 0 - delta > cap * t[2] ELSE delta > cap * t[2]
          IN  /\ \A k \in DOMAIN pools :
                    /\ pools'[k].available = pools[k].available
                    /\ pools'[k].locked = pools[k].locked
              /\ pools' = IF exceeds THEN pools
                          ELSE [pools EXCEPT ![key].last_rebalance = now]]_vars

\* The last handler run was handle_withdrawal on w, and it failed after it
\* had marked w's nullifier spent
FailedAfterMarking(w) ==
    /\ last.op = "withdrawal"
    /\ last.id = w
    /\ last.err \in {"TokenNotFound", "AuthorizeFailed"}
    /\ w \in DOMAIN withdrawals
    /\ withdrawals[w].zcash_proof = "valid"
    /\ AuthorizedWith(withdrawals[w].nullifier) = {}

\* C34: a withdrawal with a valid proof whose pass failed after its nullifier
\* was marked spent stays pending, and its next pass does not discard it: the
\* pass keeps the row and, when it ends without an error, has authorized it.
C34_ValidWithdrawalNotDiscarded ==
    [][\A w \in WithdrawalIds :
          (WithdrawalStep(w) /\ FailedAfterMarking(w))
             => /\ w \in DOMAIN withdrawals'
                /\ last'.ok => withdrawals'[w].authorized]_vars

\* C35: lock, release, add and remove leave every pool's target as it was, in
\* memory and in the liquidity_pools row, so that the manager load_pools builds
\* from the store has the available, locked and target of the manager that
\* wrote it (after an operation that returned Ok).
C35_TargetKept ==
    /\ [][\A k \in DOMAIN pools :
            /\ pools'[k].target = pools[k].target
            /\ k \in DOMAIN dbPools => dbPools'[k].target = dbPools[k].target]_vars
    /\ [](last.ok =>
            \A k \in DOMAIN pools :
                /\ k \in DOMAIN dbPools
                /\ load_pools(dbPools)[k].available = pools[k].available
                /\ load_pools(dbPools)[k].locked = pools[k].locked
                /\ load_pools(dbPools)[k].target = pools[k].target)

\* C36: on a loaded registry, a lookup of a registered (chain_id, address) that
\* returns a ChainToken returns one with the queried chain_id and, letter case
\* aside, the queried address; also when a token has several representations
\* on one chain or two definitions share a symbol.
C36_LookupReturnsQueried ==
    registry.ok =>
        \A k \in Registered(registry.tokens) :
            LET r == get_token_for_chain(registry.reg, k[1], k[2]) IN
            r.ok => /\ r.chain_id = k[1]
                    /\ to_lowercase(r.address) = to_lowercase(k[2])

\* C37: every 200 response of GET /withdrawals/authorized is accepted by the
\* relayer's query_authorized_withdrawals, which returns as many withdrawals
\* as the response lists.
C37_ResponseAccepted ==
    \A answer \in authorized_withdrawals_handler(withdrawals) :
        LET r == query_authorized_withdrawals([status |-> 200, body |-> answer]) IN
        /\ r.ok
        /\ Len(r.withdrawals) = Len(answer)

\* C38: active_deposits of a /stats response is the number of processed
\* deposits minus the number of authorized withdrawals, which is never
\* negative, so the cast to u64 never wraps.
C38_ActiveDeposits ==
    LET response   == stats_handler(deposits, withdrawals)
        processed  == Cardinality({d \in DOMAIN deposits : deposits[d].processed})
        authorized == Cardinality({w \in DOMAIN withdrawals : withdrawals[w].authorized})
    IN  response.status = 200 =>
            /\ processed - authorized >= 0
            /\ response.body.active_deposits = processed - authorized

\* The relayer holds a peer's claim on the task whose lease has not run out
PeerClaimValid(self, id) ==
    /\ id \in DOMAIN relayers[self].task_claims
    /\ relayers[self].task_claims[id].claimed_by = "peer"
    /\ relayers[self].task_claims[id].expires_at > now

\* C39: a relayer never replaces a peer's claim that has not expired: when the
\* peer's CLAIM was handled between the is_task_claimed check and
\* broadcast_task_claim, the stored claim stays as it is and the relayer does
\* not go on to submit the withdrawal.
C39_PeerClaimNotReplaced ==
    [][\A self \in Relayers :
          (/\ relayers[self].pc = "claim"
           /\ relayers'[self].pc # "claim"
           /\ PeerClaimValid(self, Head(relayers[self].queue)))
          => /\ relayers'[self].task_claims[Head(relayers[self].queue)]
                    = relayers[self].task_claims[Head(relayers[self].queue)]
             /\ relayers'[self].pc # "execute"]_vars

\* C40: cleanup_expired_claims removes exactly the claims with
\* expires_at <= now and keeps every other claim unchanged, and a run of it
\* changes the answer of is_task_claimed for no task.
C40_CleanupExpired ==
    [][\A self \in Relayers :
          (last'.op = "cleanup" /\ last'.rec.relayer = self /\ now' = now)
          => /\ DOMAIN relayers'[self].task_claims
                    = {k \in DOMAIN relayers[self].task_claims :
                          ~(relayers[self].task_claims[k].expires_at <= now)}
             /\ \A k \in DOMAIN relayers'[self].task_claims :
                    relayers'[self].task_claims[k] = relayers[self].task_claims[k]
             /\ \A id \in TaskIds :
                    is_task_claimed(relayers'[self].task_claims, id, now')
                        = is_task_claimed(relayers[self].task_claims, id, now)]_vars

\* A cleanup has just removed a relayer's lapsed claim while the other relayer
\* holds a claim that has not lapsed
C40_Witness ==
    /\ last.op = "cleanup"
    /\ last.reason = "removed"
    /\ relayers[last.rec.relayer].task_claims = << >>
    /\ \E other \in Relayers \ {last.rec.relayer} :
          is_task_claimed(relayers[other].task_claims, "w1", now)

=============================================================================
